---- MODULE Spec2Model ----
(***************************************************************************)
(* A model of the buzzit aggregation pipeline (src/backend/core/crawler/   *)
(* main.py, src/backend/core/extractor.py, src/backend/main.py).           *)
(*                                                                         *)
(* The pipeline is a set of loosely coupled components, so the module      *)
(* holds one specification per component.  Every specification ranges over *)
(* the same variables; a component's specification keeps the variables of  *)
(* the other components at their idle value.                               *)
(*                                                                         *)
(*   SpecDedupe    dedupe_posts and the multi-page collect driver          *)
(*   SpecFetch     fetch_html and _decode_html                             *)
(*   SpecThumb     _extract_thumbnail, extract_thumbnail_from_page         *)
(*   SpecParse     the listing parsers parse_<site>                        *)
(*   SpecExtract   _sanitize_html and extract_content                      *)
(*   SpecCrawl     _crawl_site and crawl_all                               *)
(*   SpecCache     the serving cache, its refresh runs and its readers     *)
(*   SpecToInt     _to_int_safe                                            *)
(*   SpecDriver    the multi-page collect drivers crawl_<site>             *)
(*   SpecFill      the thumbnail backfill _fill_thumbnails_for             *)
(*   SpecSession   the fmkorea session singleton and its executor threads  *)
(*                                                                         *)
(* Strings of the program (URLs, titles, attribute values) are modelled as *)
(* sequences of tokens: a token is an indivisible piece of text, and the   *)
(* string predicates of the code (in, startswith, re.search) are computed  *)
(* token by token.                                                         *)
(***************************************************************************)
EXTENDS Integers, Sequences, FiniteSets, TLC

VARIABLES
    \* dedupe_posts / multi-page driver
    dPc,        \* "page" | "done" | "again" | "off"
    dPages,     \* what each requested page contributed to all_posts
    dRaw,       \* the rows of the page parsed last, before its dedupe
    dOut,       \* the driver's return value
    dOut2,      \* dedupe_posts applied to dOut once more
    \* fetch_html
    fPc,        \* "get" | "sleep" | "ret" | "off"
    fReq,       \* the request: url host, body bytes and declared charset served
    fAttempt,   \* the loop variable of `for attempt in range(3)`
    fLog,       \* the requests sent and the sleeps taken, in order
    fResult,    \* the return value, once fPc = "ret"
    \* thumbnail resolvers
    tPc,        \* "listing" | "detail" | "ret" | "off"
    tIn,        \* the row element or the detail page handed to the resolver
    tOut,       \* the resolver's return value, once tPc = "ret"
    \* listing parsers
    pPc,        \* "parse" | "ret" | "off"
    pIn,        \* the adapter, the rows of the fetched page and its base_url
    pOut,       \* the records parse_<site> returns, once pPc = "ret"
    \* extractor
    xPc,        \* "sanitize" | "extract" | "ret" | "failed" | "off"
    xIn,        \* the arguments of the call
    xSan,       \* what _sanitize_html returns when it is the function called
    xOut,       \* what extract_content returns
    \* crawl_all
    cPc,        \* "gather" | "ret" | "raised" | "off"
    cTask,      \* the _crawl_site task of each source, in SITES order
    cNow,       \* the clock datetime.now() reads
    cResults,   \* the list crawl_all returns, once cPc = "ret"
    \* serving cache
    kPhase,     \* "startup" | "serving" | "off"
    kRuns,      \* the refresh runs started so far, each with its new_data
    kCache,     \* the object CACHED_DATA refers to
    kLoaded,    \* the object json.load made at startup, if it did
    kTimestamp, \* CACHE_TIMESTAMP
    kFile,      \* buzzit_posts.json
    kNow,       \* the clock datetime.now() reads
    kSeen,      \* the response of the reader that ran in the last step
    kPublished, \* for each run, the posts it had when it was published
    \* _to_int_safe
    nPc,        \* "call" | "ret" | "off"
    nIn,        \* the argument: Nothing or Some(text)
    nOut,       \* the return value, once nPc = "ret"
    \* multi-page collect drivers
    vPc,        \* "page" | "detail" | "done" | "off"
    vSite,      \* the source whose driver runs
    vPage,      \* the loop variable of `for page in range(1, n)`
    vLog,       \* the listing requests sent, each with its page and outcome
    vAll,       \* all_posts
    vDet,       \* what the detail page of each candidate gave, in order
    vOut,       \* the list the driver returns
    \* thumbnail backfill
    bPc,        \* "fill" | "ret" | "off"
    bIn,        \* data["posts"] as the backfill is given it
    bPosts,     \* data["posts"]
    bTodo,      \* the positions the _process_site tasks have yet to visit
    bLog,       \* the detail pages visited: the post position and the outcome
    \* the browser-impersonation session of fmkorea and the threads that use it
    sPhase,     \* "startup" until initialize_cache has returned, then "serving"
    sSession,   \* _fmkorea_session: 0 for None, else the session object it refers to
    sCreated,   \* the number of Session objects constructed so far
    sRuns,      \* the refresh runs and the executor thread of each
    sUsed       \* the session objects a request was sent through

dedupeVars == <<dPc, dPages, dRaw, dOut, dOut2>>
fetchVars == <<fPc, fReq, fAttempt, fLog, fResult>>

thumbVars == <<tPc, tIn, tOut>>
parseVars == <<pPc, pIn, pOut>>
extractVars == <<xPc, xIn, xSan, xOut>>
crawlVars == <<cPc, cTask, cNow, cResults>>
cacheVars == <<kPhase, kRuns, kCache, kLoaded, kTimestamp, kFile, kNow, kSeen, kPublished>>
toIntVars == <<nPc, nIn, nOut>>
driverVars == <<vPc, vSite, vPage, vLog, vAll, vDet, vOut>>
fillVars == <<bPc, bIn, bPosts, bTodo, bLog>>
sessionVars == <<sPhase, sSession, sCreated, sRuns, sUsed>>

vars == <<dedupeVars, fetchVars, thumbVars, parseVars, extractVars, crawlVars, cacheVars, toIntVars, driverVars, fillVars, sessionVars>>

notDedupe == <<fetchVars, thumbVars, parseVars, extractVars, crawlVars, cacheVars, toIntVars, driverVars, fillVars, sessionVars>>
notFetch == <<dedupeVars, thumbVars, parseVars, extractVars, crawlVars, cacheVars, toIntVars, driverVars, fillVars, sessionVars>>
notThumb == <<dedupeVars, fetchVars, parseVars, extractVars, crawlVars, cacheVars, toIntVars, driverVars, fillVars, sessionVars>>
notParse == <<dedupeVars, fetchVars, thumbVars, extractVars, crawlVars, cacheVars, toIntVars, driverVars, fillVars, sessionVars>>
notExtract == <<dedupeVars, fetchVars, thumbVars, parseVars, crawlVars, cacheVars, toIntVars, driverVars, fillVars, sessionVars>>
notCrawl == <<dedupeVars, fetchVars, thumbVars, parseVars, extractVars, cacheVars, toIntVars, driverVars, fillVars, sessionVars>>
notCache == <<dedupeVars, fetchVars, thumbVars, parseVars, extractVars, crawlVars, toIntVars, driverVars, fillVars, sessionVars>>
notToInt == <<dedupeVars, fetchVars, thumbVars, parseVars, extractVars, crawlVars, cacheVars, driverVars, fillVars, sessionVars>>
notDriver == <<dedupeVars, fetchVars, thumbVars, parseVars, extractVars, crawlVars, cacheVars, toIntVars, fillVars, sessionVars>>
notFill == <<dedupeVars, fetchVars, thumbVars, parseVars, extractVars, crawlVars, cacheVars, toIntVars, driverVars, sessionVars>>
notSession == <<dedupeVars, fetchVars, thumbVars, parseVars, extractVars, crawlVars, cacheVars, toIntVars, driverVars, fillVars>>

None == "None"

\* Python's None where the other values are records
Nothing == [kind |-> "None"]

(***************************************************************************)
(* Token strings.                                                          *)
(***************************************************************************)
DigitTokens == {"1", "2"}

\* the tokens that hold a pattern without being equal to it
SubstringPairs ==
    {<<"humoruniv.com", "web.humoruniv.com">>,
     <<"view.php", "view.php?id=freeboard">>,
     <<"board/webzine/2097", "board/webzine/2097/">>}

Within(pat, tok) == pat = tok \/ <<pat, tok>> \in SubstringPairs

\* `pat in s`
Contains(s, pat) == \E i \in 1..Len(s) : Within(pat, s[i])

\* m.group(1) of re.search(pat + r"(\d+)", s): the digits after the first
\* occurrence of pat that digits follow; None when there is no match
SearchDigits(s, pat) ==
    LET hits == {i \in 1..Len(s) - 1 : s[i] = pat /\ s[i + 1] \in DigitTokens}
    IN  IF hits = {} THEN None
        ELSE s[(CHOOSE i \in hits : \A j \in hits : i <= j) + 1]

RECURSIVE Flatten(_)
Flatten(ss) == IF ss = <<>> THEN <<>> ELSE Head(ss) \o Flatten(Tail(ss))

\* the sequences over S of length at most n
SeqsUpTo(S, n) == UNION {[1..k -> S] : k \in 0..n}

\* an Optional value that is not None
Some(v) == [kind |-> "some", v |-> v]

\* the first n elements (find_all(..., limit=n), list[:n])
Limit(s, n) == IF Len(s) <= n THEN s ELSE SubSeq(s, 1, n)

(***************************************************************************)
(* URLs.  The first token of a URL string tells how it starts: a scheme    *)
(* ("https://", "javascript:", ...), "//", "/", "#", blank space, or a     *)
(* path segment.  LowerTok is str.lower() on the tokens that have capitals.*)
(***************************************************************************)
LowerTok(t) ==
    CASE t = "JaVaScript:" -> "javascript:"
      [] t = "ICON" -> "icon"
      [] OTHER -> t

Lower(s) == [i \in 1..Len(s) |-> LowerTok(s[i])]

\* s.startswith(p) for the prefixes the code tests
StartsWith(s, p) ==
    /\ s # <<>>
    /\ CASE p = "http" -> s[1] \in {"http://", "https://", "httpdocs/"}
         [] p = "/" -> s[1] \in {"/", "//", "/free/"}
         [] OTHER -> s[1] = p

\* the scheme urllib.parse.urlsplit finds: it strips leading blanks first
\* (CPython 3.11.4 and later); "" when the string has no scheme
SchemeTokens ==
    {"http://", "https://", "javascript:", "JaVaScript:", "java\tscript:", "data:", "mailto:"}

\* the scheme a scheme token spells: urlsplit drops the tab and newline
\* characters of the URL and lower-cases the scheme, as browsers do
SchemeOf(t) == IF t \in {"JaVaScript:", "java\tscript:"} THEN "javascript:" ELSE t

RECURSIVE LStrip(_)
LStrip(s) == IF s # <<>> /\ Head(s) = " " THEN LStrip(Tail(s)) ELSE s

Scheme(s) ==
    LET t == LStrip(s)
    IN  IF t # <<>> /\ t[1] \in SchemeTokens THEN SchemeOf(t[1]) ELSE ""

\* a base URL is <<scheme, host, directory, last segment>>
\* urllib.parse.urljoin(base, url): a URL with a scheme comes back as it is;
\* the others are resolved against the base
urljoin(base, url) ==
    IF base = <<>> THEN url
    ELSE IF url = <<>> THEN base
    ELSE IF Scheme(url) # "" THEN url
    ELSE IF url[1] = "//" THEN <<base[1]>> \o Tail(url)
    ELSE IF StartsWith(url, "/") THEN <<base[1], base[2]>> \o url
    ELSE IF url[1] = "#" THEN base \o url
    ELSE <<base[1], base[2], base[3]>> \o url

\* how a browser reads the URL: leading blanks do not count, the scheme is
\* case-insensitive
IsScheme(url, scheme) == Scheme(url) = scheme


(***************************************************************************)
(* dedupe_posts (crawler/main.py 1072-1111).                               *)
(***************************************************************************)

\* the key the loop body computes for one post: the first branch of the
\* if/elif chain whose substring test holds decides; when its regular
\* expression does not match, the key stays the URL
KeyOr(url, pat, prefix) ==
    LET d == SearchDigits(url, pat)
    IN  IF d = None THEN url ELSE <<prefix, d>>

url_key(p) ==
    LET u == p.url
    IN  IF Contains(u, "number=") THEN KeyOr(u, "number=", "humoruniv_")
        ELSE IF Contains(u, "document_srl=") THEN KeyOr(u, "document_srl=", "fmkorea_")
        ELSE IF Contains(u, "read/") THEN KeyOr(u, "read/", "ruliweb_")
        ELSE IF Contains(u, "wr_id=") THEN KeyOr(u, "wr_id=", "etoland_")
        ELSE IF Contains(u, "board/webzine/2097/") THEN KeyOr(u, "board/webzine/2097/", "inven_")
        ELSE IF Contains(u, "No=") THEN KeyOr(u, "No=", "bobaedream_")
        ELSE IF Contains(u, "view.php") /\ Contains(u, "no=") THEN KeyOr(u, "no=", "ppomppu_")
        ELSE u

RECURSIVE DedupeLoop(_, _, _, _)
DedupeLoop(posts, i, seen, uniq) ==
    IF i > Len(posts) THEN uniq
    ELSE LET k == url_key(posts[i])
         IN  IF k \in seen
             THEN DedupeLoop(posts, i + 1, seen, uniq)
             ELSE DedupeLoop(posts, i + 1, seen \cup {k}, Append(uniq, posts[i]))

\* a dedupe that puts each new record in front of the ones kept so far
RECURSIVE DedupeLoopPrepend(_, _, _, _)
DedupeLoopPrepend(posts, i, seen, uniq) ==
    IF i > Len(posts) THEN uniq
    ELSE LET k == url_key(posts[i])
         IN  IF k \in seen
             THEN DedupeLoopPrepend(posts, i + 1, seen, uniq)
             ELSE DedupeLoopPrepend(posts, i + 1, seen \cup {k}, <<posts[i]>> \o uniq)

dedupe_posts_prepend(posts) == DedupeLoopPrepend(posts, 1, {}, <<>>)

\* a dedupe in which a later duplicate replaces the record kept so far
RECURSIVE DedupeLoopLastWins(_, _, _)
DedupeLoopLastWins(posts, i, uniq) ==
    IF i > Len(posts) THEN uniq
    ELSE LET k == url_key(posts[i])
             hit == {j \in 1..Len(uniq) : url_key(uniq[j]) = k}
         IN  IF hit = {}
             THEN DedupeLoopLastWins(posts, i + 1, Append(uniq, posts[i]))
             ELSE DedupeLoopLastWins(posts, i + 1,
                      [j \in 1..Len(uniq) |-> IF j \in hit THEN posts[i] ELSE uniq[j]])

dedupe_posts_last_wins(posts) == DedupeLoopLastWins(posts, 1, <<>>)

dedupe_posts(posts) == DedupeLoop(posts, 1, {}, <<>>)

(***************************************************************************)
(* The multi-page collect driver (crawl_humoruniv_multi_pages and its      *)
(* siblings): request the pages in order, parse each page that arrives     *)
(* (every parse_* ends in dedupe_posts), extend all_posts, then dedupe.    *)
(***************************************************************************)
\* for page in range(1, 3)
DriverPages == 2
MaxPageLen == 2

Humor1   == <<"https://", "web.humoruniv.com", "/board/humor/", "read.html", "?table=pds&", "number=", "1">>
Humor1Pg == <<"https://", "web.humoruniv.com", "/board/humor/", "read.html", "?table=pds&", "number=", "1", "&pg=2">>
Humor2   == <<"https://", "web.humoruniv.com", "/board/humor/", "read.html", "?table=pds&", "number=", "2">>
HumorNoId == <<"https://", "web.humoruniv.com", "/board/humor/", "read.html", "?table=pds&", "number=", "x">>
Ddanzi1  == <<"https://", "www.ddanzi.com", "/free/", "1">>

DedupeUrls == {Humor1, Humor1Pg, Humor2, HumorNoId, Ddanzi1}

\* the records a listing row can yield: site, url and a title that tells
\* two records of one URL apart
DedupePosts ==
    {[site |-> "humoruniv", url |-> u, title |-> "t1"] : u \in DedupeUrls \ {Ddanzi1}}
    \cup {[site |-> "humoruniv", url |-> Humor1, title |-> "t2"],
          [site |-> "ddanzi", url |-> Ddanzi1, title |-> "t1"]}

RawPages == SeqsUpTo(DedupePosts, MaxPageLen)

all_posts == Flatten(dPages)

DedupeInit ==
    /\ dPc = "page"
    /\ dPages = <<>>
    /\ dRaw = <<>>
    /\ dOut = <<>>
    /\ dOut2 = <<>>

DedupeIdle ==
    /\ dPc = "off"
    /\ dPages = <<>>
    /\ dRaw = <<>>
    /\ dOut = <<>>
    /\ dOut2 = <<>>

\* the page arrives and is parsed: posts = parse_*(url, html), which returns
\* dedupe_posts(posts); all_posts.extend(posts)
PageParsed ==
    /\ dPc = "page"
    /\ Len(dPages) < DriverPages
    /\ \E raw \in RawPages :
          /\ dRaw' = raw
          /\ dPages' = Append(dPages, dedupe_posts(raw))
    /\ UNCHANGED <<dPc, dOut, dOut2>>
    /\ UNCHANGED notDedupe

\* the request raises, or the decoded text is empty: the page adds nothing
PageFailed ==
    /\ dPc = "page"
    /\ Len(dPages) < DriverPages
    /\ dPages' = Append(dPages, <<>>)
    /\ dRaw' = <<>>
    /\ UNCHANGED <<dPc, dOut, dOut2>>
    /\ UNCHANGED notDedupe

\* the loop is over: all_posts = dedupe_posts(all_posts); return all_posts
DriverReturn ==
    /\ dPc = "page"
    /\ Len(dPages) = DriverPages
    /\ dOut' = dedupe_posts(all_posts)
    /\ dPc' = "done"
    /\ UNCHANGED <<dPages, dRaw, dOut2>>
    /\ UNCHANGED notDedupe

\* dedupe_posts applied to a list it has already returned
DedupeAgain ==
    /\ dPc = "done"
    /\ dOut2' = dedupe_posts(dOut)
    /\ dPc' = "again"
    /\ UNCHANGED <<dPages, dRaw, dOut>>
    /\ UNCHANGED notDedupe

DedupeNext == PageParsed \/ PageFailed \/ DriverReturn \/ DedupeAgain

(***************************************************************************)
(* Properties of dedupe_posts.                                             *)
(***************************************************************************)
Keys(X) == {url_key(X[i]) : i \in 1..Len(X)}

\* the positions of X that hold the first record of their key
FirstIdx(X) == {i \in 1..Len(X) : \A j \in 1..(i - 1) : url_key(X[j]) # url_key(X[i])}

RECURSIVE AtIdx(_, _, _)
AtIdx(X, I, i) ==
    IF i > Len(X) THEN <<>>
    ELSE (IF i \in I THEN <<X[i]>> ELSE <<>>) \o AtIdx(X, I, i + 1)

FirstOccurrences(X) == AtIdx(X, FirstIdx(X), 1)

\* C6: dedupe_posts is idempotent: applied to a list it returned, it returns
\* that list again, both for the driver's result and for a page's result
\* (parse_* dedupes the page, the driver dedupes it again when no other page
\* contributed).
C6_DedupeIdempotent ==
    /\ dPc = "again" => dOut2 = dOut
    /\ dPc \in {"done", "again"} =>
          \A i \in 1..Len(dPages) :
              (\A j \in 1..Len(dPages) : j # i => dPages[j] = <<>>) => dOut = dPages[i]

C6_Witness ==
    /\ dPc = "again"
    /\ Len(dOut) >= 2
    /\ Len(all_posts) > Len(dOut)

\* C7: dedupe_posts(X) is the subsequence of X made of the first record of
\* each key, in X's order: no key twice, every key of X once; for the
\* driver, the record kept for a key is the one of the earliest page that
\* holds the key.
C7_DedupeFirstOccurrence ==
    /\ dPages # <<>> => dPages[Len(dPages)] = FirstOccurrences(dRaw)
    /\ dPc \in {"done", "again"} =>
          /\ dOut = FirstOccurrences(all_posts)
          /\ \A i, j \in 1..Len(dOut) : url_key(dOut[i]) = url_key(dOut[j]) => i = j
          /\ Keys(dOut) = Keys(all_posts)
          /\ \A i \in 1..Len(dOut) :
                LET pages == {p \in 1..Len(dPages) : url_key(dOut[i]) \in Keys(dPages[p])}
                    first == CHOOSE p \in pages : \A q \in pages : p <= q
                IN  \E n \in 1..Len(dPages[first]) : dPages[first][n] = dOut[i]

C7_Witness ==
    /\ dPc = "done"
    /\ Len(dPages) = DriverPages
    /\ \E m \in 1..Len(dPages[1]), n \in 1..Len(dPages[2]) :
          /\ url_key(dPages[1][m]) = url_key(dPages[2][n])
          /\ dPages[1][m] # dPages[2][n]
          /\ \E i \in 1..Len(dOut) : dOut[i] = dPages[1][m]
          /\ \A i \in 1..Len(dOut) : dOut[i] # dPages[2][n]

(***************************************************************************)
(* _decode_html (crawler/main.py 117-146).  The bytes of a response are    *)
(* modelled by the set of encodings they are strictly valid in; latin-1    *)
(* decodes every byte string, an unknown encoding name raises LookupError, *)
(* which the loop's `except Exception` swallows like a decoding error.     *)
(***************************************************************************)
KnownEncodings == {"utf-8", "cp949", "euc-kr", "latin-1"}

StrictOk(content, enc) == enc = "latin-1" \/ (enc \in KnownEncodings /\ enc \in content)

\* the first encoding of the chain whose strict decode succeeds; entries
\* that are None or empty are skipped
RECURSIVE FirstStrict(_, _)
FirstStrict(chain, content) ==
    IF chain = <<>> THEN None
    ELSE IF Head(chain) # None /\ StrictOk(content, Head(chain)) THEN Head(chain)
    ELSE FirstStrict(Tail(chain), content)

\* the chain of the general branch: an encoding already tried is skipped
RECURSIVE Untried(_, _)
Untried(chain, tried) ==
    IF chain = <<>> THEN <<>>
    ELSE IF Head(chain) = None \/ Head(chain) \in tried THEN Untried(Tail(chain), tried)
    ELSE <<Head(chain)>> \o Untried(Tail(chain), tried \cup {Head(chain)})

Text(enc, errors) == [kind |-> "text", enc |-> enc, errors |-> errors]

\* a decoder without the site hints: every host takes the general branch
_decode_html_no_hint(host, content, declared_encoding) ==
    LET enc == FirstStrict(Untried(<<declared_encoding, "utf-8", "cp949", "euc-kr", "latin-1">>, {}),
                           content)
    IN  IF enc = None THEN Text("utf-8", "ignore") ELSE Text(enc, "strict")

_decode_html(host, content, declared_encoding) ==
    IF host \in {"humoruniv.com", "mlbpark.donga.com"}
    THEN IF host = "mlbpark.donga.com"
         THEN Text("utf-8", "replace")
         ELSE LET enc == FirstStrict(<<"cp949", "euc-kr", "utf-8", declared_encoding>>, content)
              IN  IF enc = None THEN Text("cp949", "ignore") ELSE Text(enc, "strict")
    ELSE LET enc == FirstStrict(Untried(<<declared_encoding, "utf-8", "cp949", "euc-kr", "latin-1">>, {}),
                                content)
         IN  IF enc = None THEN Text("utf-8", "ignore") ELSE Text(enc, "strict")

(***************************************************************************)
(* fetch_html (crawler/main.py 148-162).                                   *)
(***************************************************************************)
FetchAttempts == 3

\* a backoff that does not grow with the attempt
BackoffFlat(attempt) == 1

\* await asyncio.sleep(1.0 + attempt), in seconds
Backoff(attempt) == 1 + attempt

FetchHosts == {"humoruniv.com", "mlbpark.donga.com", "bbs.ruliweb.com"}

\* byte strings by the encodings they are valid in (EUC-KR is a subset of CP949)
FetchContents == {c \in SUBSET {"utf-8", "cp949", "euc-kr"} : "euc-kr" \in c => "cp949" \in c}

FetchDeclared == {None, "utf-8", "euc-kr", "x-unknown"}

FetchRequests == [host : FetchHosts, content : FetchContents, declared : FetchDeclared]

\* what one client.get can do other than return 200 with a body or raise
\* ConnectTimeout: 200 with an empty body, another status, another exception
FetchRetryable == {"empty_200", "http_error", "exception"}

GetEvent(attempt, outcome) == [ev |-> "get", attempt |-> attempt, outcome |-> outcome]
SleepEvent(secs) == [ev |-> "sleep", secs |-> secs]

FetchInit ==
    /\ fPc = "get"
    /\ fReq \in FetchRequests
    /\ fAttempt = 0
    /\ fLog = <<>>
    /\ fResult = Nothing

FetchIdle ==
    /\ fPc = "off"
    /\ fReq = None
    /\ fAttempt = 0
    /\ fLog = <<>>
    /\ fResult = Nothing

\* r.status_code == 200 and r.content: return _decode_html(url, r.content, r.encoding)
FetchOk ==
    /\ fPc = "get"
    /\ fLog' = Append(fLog, GetEvent(fAttempt, "ok_200"))
    /\ fResult' = _decode_html(fReq.host, fReq.content, fReq.declared)
    /\ fPc' = "ret"
    /\ UNCHANGED <<fReq, fAttempt>>
    /\ UNCHANGED notFetch

\* except httpx.ConnectTimeout: return None
FetchConnectTimeout ==
    /\ fPc = "get"
    /\ fLog' = Append(fLog, GetEvent(fAttempt, "connect_timeout"))
    /\ fResult' = Nothing
    /\ fPc' = "ret"
    /\ UNCHANGED <<fReq, fAttempt>>
    /\ UNCHANGED notFetch

\* the response is not usable, or another exception is caught: fall through
\* to the sleep at the end of the loop body
FetchRetry ==
    /\ fPc = "get"
    /\ \E o \in FetchRetryable : fLog' = Append(fLog, GetEvent(fAttempt, o))
    /\ fPc' = "sleep"
    /\ UNCHANGED <<fReq, fAttempt, fResult>>
    /\ UNCHANGED notFetch

\* await asyncio.sleep(1.0 + attempt); then the next iteration, or the
\* `return None` after the loop
FetchSleep ==
    /\ fPc = "sleep"
    /\ fLog' = Append(fLog, SleepEvent(Backoff(fAttempt)))
    /\ IF fAttempt + 1 < FetchAttempts
       THEN /\ fAttempt' = fAttempt + 1
            /\ fPc' = "get"
            /\ UNCHANGED fResult
       ELSE /\ fResult' = Nothing
            /\ fPc' = "ret"
            /\ UNCHANGED fAttempt
    /\ UNCHANGED fReq
    /\ UNCHANGED notFetch

FetchNext == FetchOk \/ FetchConnectTimeout \/ FetchRetry \/ FetchSleep

GetIdx == {i \in 1..Len(fLog) : fLog[i].ev = "get"}

\* C10: fetch_html sends at most 3 requests; before request k+1 it has slept
\* k seconds since failed request k; a ConnectTimeout ends the call at once
\* with None, nothing sent or slept after it; a 200 with a body ends the
\* call with the decoded text.
C10_FetchRetryBudget ==
    /\ Cardinality(GetIdx) <= 3
    /\ \A i \in GetIdx :
          /\ fLog[i].attempt = Cardinality({j \in GetIdx : j < i})
          /\ fLog[i].attempt >= 1 =>
                /\ i >= 3
                /\ fLog[i - 1] = SleepEvent(fLog[i].attempt)
                /\ fLog[i - 2].ev = "get"
                /\ fLog[i - 2].outcome \in FetchRetryable
          /\ fLog[i].outcome \in {"connect_timeout", "ok_200"} =>
                /\ i = Len(fLog)
                /\ fPc = "ret"
          /\ fLog[i].outcome = "connect_timeout" => fResult = Nothing
          /\ fLog[i].outcome = "ok_200" =>
                /\ fResult # Nothing
                /\ fResult = _decode_html(fReq.host, fReq.content, fReq.declared)
    /\ fPc = "ret" /\ fResult # Nothing => fLog[Len(fLog)].outcome = "ok_200"

C10_Witness ==
    /\ fPc = "ret"
    /\ Len(fLog) = 5
    /\ fLog[2] = SleepEvent(1)
    /\ fLog[4] = SleepEvent(2)
    /\ fLog[5] = GetEvent(2, "connect_timeout")

\* the first position of the chain whose encoding decodes content strictly
FirstDecoding(chain, content) ==
    {k \in 1..Len(chain) :
        /\ StrictOk(content, chain[k])
        /\ \A j \in 1..(k - 1) : ~StrictOk(content, chain[j])}

GeneralChain(declared) == <<declared, "utf-8", "cp949", "euc-kr", "latin-1">>
HumorunivHint == <<"cp949", "euc-kr", "utf-8">>

\* C11: _decode_html always returns text, whatever the bytes, the declared
\* charset (none and unknown names included) and the host.  On humoruniv
\* the hint's encodings are tried in the hint's order before the declared
\* charset, and on mlbpark the text is UTF-8 whatever is declared; on every
\* other host the text is the strict decode under the first encoding of
\* declared, UTF-8, CP949, EUC-KR, Latin-1 that succeeds.
C11_DecodeChain ==
    (fPc = "ret" /\ fLog[Len(fLog)] = GetEvent(fAttempt, "ok_200")) =>
        /\ fResult # Nothing
        /\ fResult.kind = "text"
        /\ CASE fReq.host = "mlbpark.donga.com" -> fResult.enc = "utf-8"
             [] fReq.host = "humoruniv.com" ->
                    LET first == FirstDecoding(HumorunivHint, fReq.content)
                    IN  IF first # {}
                        THEN \E k \in first : fResult = Text(HumorunivHint[k], "strict")
                        ELSE IF StrictOk(fReq.content, fReq.declared)
                        THEN fResult = Text(fReq.declared, "strict")
                        ELSE fResult.errors = "ignore"
             [] OTHER ->
                    /\ FirstDecoding(GeneralChain(fReq.declared), fReq.content) # {}
                    /\ \E k \in FirstDecoding(GeneralChain(fReq.declared), fReq.content) :
                          fResult = Text(GeneralChain(fReq.declared)[k], "strict")

\* bytes that are not UTF-8 although UTF-8 is declared, and that are valid
\* CP949 outside EUC-KR: the chain decodes them as CP949
C11_Witness ==
    /\ fPc = "ret"
    /\ fReq.host = "bbs.ruliweb.com"
    /\ fReq.declared = "utf-8"
    /\ fReq.content = {"cp949"}
    /\ fResult = Text("cp949", "strict")

(***************************************************************************)
(* Thumbnails: _extract_thumbnail (listing rows) and                       *)
(* _extract_first_media_from_content (detail pages).                       *)
(*                                                                         *)
(* An <img> is [src, lazy, width, height]: lazy maps each lazy-load        *)
(* attribute to its value, and an attribute that is absent has the value   *)
(* <<>>.  width and height are strings of characters.                      *)
(***************************************************************************)
DigitChars == {"0", "1", "2", "3", "4", "5", "6", "7", "8", "9"}

DigitVal(c) ==
    CASE c = "0" -> 0 [] c = "1" -> 1 [] c = "2" -> 2 [] c = "3" -> 3
      [] c = "4" -> 4 [] c = "5" -> 5 [] c = "6" -> 6 [] c = "7" -> 7
      [] c = "8" -> 8 [] c = "9" -> 9

\* str.isdigit()
isdigit(s) == s # <<>> /\ \A i \in 1..Len(s) : s[i] \in DigitChars

\* int(s) of a string of digits
RECURSIVE int(_)
int(s) == IF s = <<>> THEN 0 ELSE 10 * int(SubSeq(s, 1, Len(s) - 1)) + DigitVal(s[Len(s)])

_LAZY_ATTRS == <<"data-src", "data-original", "data-lazy-src", "data-lazy">>

_THUMB_EXCLUDE_PATTERNS ==
    {"profile", "avatar", "icon", "logo", "emoticon", "emot",
     "placeholder", "blank", "spacer", "noimg", "no_img",
     "/img/new_icon", "/img/renewal", "/img/rank/", "/renew/images/",
     "/newimg/", "/board/level/", "/level/",
     "num01", "num02", "num03", "num04", "num05",
     "num06", "num07", "num08", "num09", "num10", ".svg"}

\* the pattern tuple written inside _extract_first_media_from_content
ContentImgExcludePatterns ==
    {"loading", "placeholder", "blank", "spacer", "pixel",
     "noimg", "no_img", "no_image", "no-image",
     "icon", "logo", "emoticon", "emot",
     "/newimg/", "/renew/images/", "/btn_", "btn_",
     "/board/level/", "/level/", "/img/rank/",
     "gallery_no", "thumb_no"}

_OG_DEFAULT_PATTERNS ==
    {"headtitle", "default", "og_default", "og-default",
     "common/", "share_img", "share_icon", "logo", "favicon",
     "no_image", "noimage", "no-image"}

\* any(p in src.lower() for p in patterns)
MatchesAny(src, patterns) == \E p \in patterns : Contains(Lower(src), p)

\* the first lazy-load attribute, in _LAZY_ATTRS order, whose value starts
\* with one of the prefixes; <<>> when there is none
RECURSIVE LazySrc(_, _, _)
LazySrc(img, prefixes, i) ==
    IF i > Len(_LAZY_ATTRS) THEN <<>>
    ELSE LET val == img.lazy[_LAZY_ATTRS[i]]
         IN  IF val # <<>> /\ \E p \in prefixes : StartsWith(val, p)
             THEN val
             ELSE LazySrc(img, prefixes, i + 1)

\* `dim and str(dim).isdigit() and int(dim) < least`
TooSmall(dim, least) == dim # <<>> /\ isdigit(dim) /\ int(dim) < least

\* the src the img loop works with: lazy-load value first, then src
ImgSrc(img, prefixes) ==
    LET lazy == LazySrc(img, prefixes, 1)
    IN  IF lazy # <<>> THEN lazy ELSE img.src

\* "https:" + src for a src that starts with "//"
HttpsOf(src) == <<"https://">> \o Tail(src)

RECURSIVE ThumbLoop(_, _, _)
ThumbLoop(imgs, i, base_url) ==
    IF i > Len(imgs) THEN Nothing
    ELSE LET img == imgs[i]
             src == ImgSrc(img, {"http", "/"})
         IN  IF \/ src = <<>>
                \/ StartsWith(src, "data:")
                \/ MatchesAny(src, _THUMB_EXCLUDE_PATTERNS)
                \/ TooSmall(img.width, 30)
                \/ TooSmall(img.height, 30)
             THEN ThumbLoop(imgs, i + 1, base_url)
             ELSE IF ~StartsWith(src, "http")
                  THEN Some(urljoin(base_url, src))
                  ELSE Some(src)

\* element is Nothing or [imgs |-> the <img> elements under it, in order]
_extract_thumbnail(element, base_url) ==
    IF element = Nothing THEN Nothing
    ELSE ThumbLoop(Limit(element.imgs, 5), 1, base_url)

_CONTENT_SELECTORS ==
    [humoruniv |-> <<"#cnts", "#wrap_img">>,
     ruliweb |-> <<"div.view_content", "div.board_main_view">>,
     etoland |-> <<"div#view_content", "td.mw_basic_view_content">>,
     inven |-> <<"div#powerbbsContent", "div.contentBody">>,
     clien |-> <<"div.post_article", "div.post_view">>,
     mlbpark |-> <<"div#contentDetail", "div.ar_txt">>,
     ddanzi |-> <<"div.xe_content", "div.read_content">>,
     bobaedream |-> <<"div.bodyCont", "div.content02">>,
     ppomppu |-> <<"td.board-contents">>,
     fmkorea |-> <<"div.xe_content", "article">>,
     dcinside |-> <<"div.write_div", "div.writing_view_box">>,
     damoang |-> <<"div.fr-view", "div.view_content">>,
     dogdrip |-> <<"div.xe_content">>,
     theqoo |-> <<"div.xe_content">>,
     82cook |-> <<"div.view_content", "div.post_content">>,
     slrclub |-> <<"div#userct">>]

\* str.rstrip() of blank tokens
RECURSIVE RStrip(_)
RStrip(s) ==
    IF s # <<>> /\ s[Len(s)] = " " THEN RStrip(SubSeq(s, 1, Len(s) - 1)) ELSE s

_is_valid_og_image(url) ==
    IF url = <<>> THEN FALSE
    ELSE IF MatchesAny(url, _OG_DEFAULT_PATTERNS) THEN FALSE
    ELSE IF /\ Contains(Lower(url), "resize.php")
            /\ LET t == RStrip(Lower(url)) IN t # <<>> /\ t[Len(t)] = "src="
         THEN FALSE
    ELSE TRUE

\* a detail page (soup) is [els, og]: els maps each selector that matches to
\* the first element it selects; og is Nothing without an og:image meta tag,
\* else Some(its content attribute)
select_one(soup, selector) ==
    IF selector \in DOMAIN soup.els THEN soup.els[selector] ELSE Nothing

\* the first element any of the selectors finds
RECURSIVE FirstSelected(_, _, _)
FirstSelected(soup, selectors, i) ==
    IF i > Len(selectors) THEN Nothing
    ELSE LET el == select_one(soup, selectors[i])
         IN  IF el # Nothing THEN el ELSE FirstSelected(soup, selectors, i + 1)

OgImage(soup) ==
    IF soup.og = Nothing THEN Nothing
    ELSE LET content == soup.og.v
         IN  IF content # <<>> /\ StartsWith(content, "http") /\ _is_valid_og_image(content)
             THEN Some(content)
             ELSE Nothing

RECURSIVE ContentImgLoop(_, _, _)
ContentImgLoop(imgs, i, base_url) ==
    IF i > Len(imgs) THEN Nothing
    ELSE LET img == imgs[i]
             src == ImgSrc(img, {"http", "/", "//"})
         IN  IF \/ src = <<>>
                \/ StartsWith(src, "data:")
                \/ MatchesAny(src, ContentImgExcludePatterns)
                \/ TooSmall(img.width, 50)
                \/ TooSmall(img.height, 50)
             THEN ContentImgLoop(imgs, i + 1, base_url)
             ELSE IF StartsWith(src, "//") THEN Some(HttpsOf(src))
             ELSE IF ~StartsWith(src, "http") THEN Some(urljoin(base_url, src))
             ELSE Some(src)

\* videos: the poster attribute of each <video>, <<>> when it has none
RECURSIVE PosterLoop(_, _, _)
PosterLoop(videos, i, base_url) ==
    IF i > Len(videos) THEN Nothing
    ELSE LET poster == videos[i]
         IN  IF poster = <<>> THEN PosterLoop(videos, i + 1, base_url)
             ELSE IF StartsWith(poster, "//") THEN Some(HttpsOf(poster))
             ELSE IF ~StartsWith(poster, "http") THEN Some(urljoin(base_url, poster))
             ELSE Some(poster)

\* group(1) of re.search(pat + r"([a-zA-Z0-9_-]+)", s)
VideoIdTokens == {"dQw4w9WgXcQ"}

SearchVideoId(s, pat) ==
    LET hits == {j \in 1..Len(s) - 1 : s[j] = pat /\ s[j + 1] \in VideoIdTokens}
    IN  IF hits = {} THEN None
        ELSE s[(CHOOSE j \in hits : \A k \in hits : j <= k) + 1]

YoutubeThumb(id) == <<"https://", "img.youtube.com/vi/", id, "/hqdefault.jpg">>

\* iframes: the src attribute of each <iframe>
RECURSIVE IframeLoop(_, _)
IframeLoop(iframes, i) ==
    IF i > Len(iframes) THEN Nothing
    ELSE LET embed == SearchVideoId(iframes[i], "youtube.com/embed/")
             short == SearchVideoId(iframes[i], "youtu.be/")
         IN  IF embed # None THEN Some(YoutubeThumb(embed))
             ELSE IF short # None THEN Some(YoutubeThumb(short))
             ELSE IframeLoop(iframes, i + 1)

\* which strategy of _extract_first_media_from_content gives the result
FirstMediaStrategy(soup, site, base_url) ==
    LET content_el == IF site \in DOMAIN _CONTENT_SELECTORS
                      THEN FirstSelected(soup, _CONTENT_SELECTORS[site], 1)
                      ELSE Nothing
    IN  IF content_el = Nothing
        THEN IF OgImage(soup) # Nothing THEN "og_only" ELSE "none"
        ELSE IF ContentImgLoop(Limit(content_el.imgs, 10), 1, base_url) # Nothing THEN "img"
        ELSE IF PosterLoop(Limit(content_el.videos, 5), 1, base_url) # Nothing THEN "poster"
        ELSE IF IframeLoop(Limit(content_el.iframes, 5), 1) # Nothing THEN "iframe"
        ELSE IF OgImage(soup) # Nothing THEN "og"
        ELSE "none"

\* a resolver that tries the video posters before the images
_extract_first_media_poster_first(soup, site, base_url) ==
    LET content_el == IF site \in DOMAIN _CONTENT_SELECTORS
                      THEN FirstSelected(soup, _CONTENT_SELECTORS[site], 1)
                      ELSE Nothing
        img == ContentImgLoop(Limit(content_el.imgs, 10), 1, base_url)
        poster == PosterLoop(Limit(content_el.videos, 5), 1, base_url)
        iframe == IframeLoop(Limit(content_el.iframes, 5), 1)
    IN  IF content_el = Nothing THEN OgImage(soup)
        ELSE IF poster # Nothing THEN poster
        ELSE IF img # Nothing THEN img
        ELSE IF iframe # Nothing THEN iframe
        ELSE OgImage(soup)

_extract_first_media_from_content(soup, site, base_url) ==
    LET content_el == IF site \in DOMAIN _CONTENT_SELECTORS
                      THEN FirstSelected(soup, _CONTENT_SELECTORS[site], 1)
                      ELSE Nothing
        img == ContentImgLoop(Limit(content_el.imgs, 10), 1, base_url)
        poster == PosterLoop(Limit(content_el.videos, 5), 1, base_url)
        iframe == IframeLoop(Limit(content_el.iframes, 5), 1)
    IN  IF content_el = Nothing THEN OgImage(soup)
        ELSE IF img # Nothing THEN img
        ELSE IF poster # Nothing THEN poster
        ELSE IF iframe # Nothing THEN iframe
        ELSE OgImage(soup)

\* the resolvers' inputs
MaxRowImgs == 2
MaxContentImgs == 1

ImgGood == <<"https://", "cdn.example/", "a.jpg">>
ImgIcon == <<"https://", "cdn.example/", "icon", ".png">>
ImgIconUpper == <<"https://", "cdn.example/", "ICON", ".png">>
ImgProfile == <<"https://", "cdn.example/", "profile", ".jpg">>
ImgLoading == <<"https://", "cdn.example/", "loading", ".gif">>
ImgLogo == <<"https://", "cdn.example/", "logo", ".png">>
ImgData == <<"data:", "image/gif;base64,R0lGOD">>
ImgRootRel == <<"/", "img/", "a.jpg">>
ImgProtoRel == <<"//", "cdn.example/", "a.jpg">>
ImgRel == <<"img/", "a.jpg">>

ThumbBase == <<"https://", "web.humoruniv.com", "/board/humor/", "list.html?table=pds">>

NoLazy == [a \in {_LAZY_ATTRS[k] : k \in 1..Len(_LAZY_ATTRS)} |-> <<>>]

Img(src, lazy, width, height) ==
    [src |-> src, lazy |-> lazy, width |-> width, height |-> height]

ThumbImgs ==
    {Img(src, NoLazy, <<>>, <<>>) :
        src \in {ImgGood, ImgIcon, ImgIconUpper, ImgProfile, ImgLoading,
                 ImgData, ImgRootRel, ImgProtoRel, ImgRel}}
    \cup {Img(ImgData, [NoLazy EXCEPT !["data-src"] = ImgGood], <<>>, <<>>),
          Img(ImgGood, [NoLazy EXCEPT !["data-src"] = ImgRel], <<>>, <<>>),
          Img(ImgGood, [NoLazy EXCEPT !["data-src"] = ImgProtoRel], <<>>, <<>>),
          Img(ImgGood, [NoLazy EXCEPT !["data-src"] = ImgIcon], <<>>, <<>>),
          Img(<<>>, [NoLazy EXCEPT !["data-original"] = ImgRootRel], <<>>, <<>>),
          Img(ImgGood, NoLazy, <<"1", "0">>, <<>>),
          Img(ImgGood, NoLazy, <<>>, <<"4", "0">>),
          Img(ImgGood, NoLazy, <<"1", "0", "0", "%">>, <<>>)}

ThumbPosters == {<<>>, ImgGood, ImgData, ImgLoading, ImgRootRel, ImgProtoRel}

ThumbIframes ==
    {<<"https://", "www.", "youtube.com/embed/", "dQw4w9WgXcQ">>,
     <<"https://", "youtu.be/", "dQw4w9WgXcQ", "?t=1">>,
     <<"https://", "www.", "youtube.com/embed/">>,
     <<"https://", "player.example/", "v1">>}

ThumbOgs ==
    {Nothing, Some(<<>>), Some(ImgGood), Some(ImgLogo), Some(ImgIcon), Some(ImgRel),
     Some(<<"https://", "cdn.example/", "resize.php", "?", "src=", " ">>)}

\* images the content loop passes over
UnusableImgs ==
    {Img(ImgIcon, NoLazy, <<>>, <<>>), Img(ImgData, NoLazy, <<>>, <<>>),
     Img(ImgGood, NoLazy, <<"1", "0">>, <<>>)}

\* a container whose eleventh image is the first one the loop would take
LateImageContent ==
    [imgs |-> [k \in 1..11 |-> IF k <= 10 THEN Img(ImgIcon, NoLazy, <<>>, <<>>)
                                ELSE Img(ImgRootRel, NoLazy, <<>>, <<>>)],
     videos |-> <<>>, iframes |-> <<>>]

\* a container holds images alone, or videos and iframes next to no image,
\* to an image the loop passes over, or to one it takes
ThumbContents ==
    [imgs : SeqsUpTo(ThumbImgs, MaxContentImgs), videos : {<<>>}, iframes : {<<>>}]
    \cup [imgs : SeqsUpTo(UnusableImgs, 1) \cup {<<Img(ImgGood, NoLazy, <<>>, <<>>)>>},
          videos : SeqsUpTo(ThumbPosters, 1),
          iframes : SeqsUpTo(ThumbIframes, 1)]
    \cup {LateImageContent}

\* what the second selector of the site finds, when it finds something
SecondContent == [imgs |-> <<Img(ImgGood, NoLazy, <<>>, <<>>)>>, videos |-> <<>>, iframes |-> <<>>]

ThumbSoups ==
    {[els |-> [sel \in {"#cnts"} |-> c], og |-> og] : c \in ThumbContents, og \in ThumbOgs}
    \cup {[els |-> [sel \in {"#cnts", "#wrap_img"} |->
                        IF sel = "#cnts" THEN c ELSE SecondContent], og |-> og] :
            c \in ThumbContents, og \in ThumbOgs}
    \cup {[els |-> [sel \in {"#wrap_img"} |-> SecondContent], og |-> og] : og \in ThumbOgs}
    \cup {[els |-> [sel \in {} |-> Nothing], og |-> og] : og \in ThumbOgs}

ThumbListingInputs ==
    {[resolver |-> "listing", element |-> e, base_url |-> ThumbBase] :
        e \in {Nothing} \cup [imgs : SeqsUpTo(ThumbImgs, MaxRowImgs)]}

ThumbDetailInputs ==
    {[resolver |-> "detail", soup |-> soup, site |-> site, base_url |-> ThumbBase] :
        soup \in ThumbSoups, site \in {"humoruniv", "unlisted"}}

ThumbInit ==
    /\ tIn \in ThumbListingInputs \cup ThumbDetailInputs
    /\ tPc = tIn.resolver
    /\ tOut = Nothing

ThumbIdle ==
    /\ tPc = "off"
    /\ tIn = Nothing
    /\ tOut = Nothing

\* one row's thumbnail, as each parse_* computes it
ListingThumb ==
    /\ tPc = "listing"
    /\ tOut' = _extract_thumbnail(tIn.element, tIn.base_url)
    /\ tPc' = "ret"
    /\ UNCHANGED <<tIn, notThumb>>

\* extract_thumbnail_from_page with the page fetched and parsed
DetailThumb ==
    /\ tPc = "detail"
    /\ tOut' = _extract_first_media_from_content(tIn.soup, tIn.site, tIn.base_url)
    /\ tPc' = "ret"
    /\ UNCHANGED <<tIn, notThumb>>

\* extract_thumbnail_from_page when the fetch gives no html or raises
DetailFetchFailed ==
    /\ tPc = "detail"
    /\ tOut' = Nothing
    /\ tPc' = "failed"
    /\ UNCHANGED <<tIn, notThumb>>

ThumbNext == ListingThumb \/ DetailThumb \/ DetailFetchFailed

\* the noise-exclusion patterns that apply to the result: the listing
\* resolver's set, the detail resolver's image set, or the og:image set when
\* the og:image fallback produced it
NoisePatterns ==
    IF tIn.resolver = "listing" THEN _THUMB_EXCLUDE_PATTERNS
    ELSE IF FirstMediaStrategy(tIn.soup, tIn.site, tIn.base_url) \in {"og", "og_only"}
         THEN _OG_DEFAULT_PATTERNS
    ELSE ContentImgExcludePatterns

\* C9: a thumbnail resolver never returns a data: URL nor a URL that matches
\* its noise-exclusion patterns, whichever strategy produced the result
\* (image, lazy-load attribute, video poster, video iframe, og:image)
C9_NoNoiseThumbnail ==
    (tPc = "ret" /\ tOut # Nothing) =>
        /\ ~IsScheme(tOut.v, "data:")
        /\ ~MatchesAny(tOut.v, NoisePatterns)

\* the element the first of the site's selectors that matches selects
ContainerOf(soup, site) ==
    LET sels == IF site \in DOMAIN _CONTENT_SELECTORS THEN _CONTENT_SELECTORS[site] ELSE <<>>
        found == {i \in 1..Len(sels) : sels[i] \in DOMAIN soup.els}
    IN  IF found = {} THEN Nothing
        ELSE soup.els[sels[CHOOSE i \in found : \A j \in found : i <= j]]

\* the first of a list of candidates that is one
FirstSomeOf(candidates) ==
    LET some == {k \in 1..Len(candidates) : candidates[k] # Nothing}
    IN  IF some = {} THEN Nothing
        ELSE candidates[CHOOSE k \in some : \A j \in some : k <= j]

\* what each strategy makes of the first ni images, nv videos and nf
\* iframes of the container, in the order of the strategies, the og:image
\* last
MediaCandidates(el, soup, base_url, ni, nv, nf) ==
    [k \in 1..Len(Limit(el.imgs, ni)) |-> ContentImgLoop(<<el.imgs[k]>>, 1, base_url)]
    \o [k \in 1..Len(Limit(el.videos, nv)) |-> PosterLoop(<<el.videos[k]>>, 1, base_url)]
    \o [k \in 1..Len(Limit(el.iframes, nf)) |-> IframeLoop(<<el.iframes[k]>>, 1)]
    \o <<OgImage(soup)>>

RECURSIVE LStripChars(_, _)
LStripChars(s, chars) ==
    IF s # <<>> /\ Head(s) \in chars THEN LStripChars(Tail(s), chars) ELSE s

RECURSIVE RStripChars(_, _)
RStripChars(s, chars) ==
    IF s # <<>> /\ s[Len(s)] \in chars
    THEN RStripChars(SubSeq(s, 1, Len(s) - 1), chars)
    ELSE s

\* str.strip(chars)
StripChars(s, chars) == RStripChars(LStripChars(s, chars), chars)

\* str.strip(), get_text(strip=True)
Strip(s) == StripChars(s, {" "})

\* str.replace(c, "")
RECURSIVE RemoveChar(_, _)
RemoveChar(s, c) ==
    IF s = <<>> THEN <<>>
    ELSE IF Head(s) = c THEN RemoveChar(Tail(s), c)
    ELSE <<Head(s)>> \o RemoveChar(Tail(s), c)

\* the longest run of digits that starts at position i
RECURSIVE DigitRun(_, _)
DigitRun(s, i) ==
    IF i <= Len(s) /\ s[i] \in DigitChars THEN <<s[i]>> \o DigitRun(s, i + 1) ELSE <<>>

\* m.group(1) of re.search(r"(\d+)", s); <<>> when there is no match
FirstDigits(s) ==
    LET at == {i \in 1..Len(s) : s[i] \in DigitChars}
    IN  IF at = {} THEN <<>>
        ELSE DigitRun(s, CHOOSE i \in at : \A j \in at : i <= j)

\* a parser that looks for the digits without removing the commas
_to_int_safe_keep_commas(text) ==
    IF text = Nothing \/ text.v = <<>> THEN Nothing
    ELSE LET m == FirstDigits(Strip(text.v))
         IN  IF m = <<>> THEN Nothing ELSE Some(int(m))

\* text is Nothing or Some(string)
_to_int_safe(text) ==
    IF text = Nothing \/ text.v = <<>> THEN Nothing
    ELSE LET m == FirstDigits(Strip(RemoveChar(text.v, ",")))
         IN  IF m = <<>> THEN Nothing ELSE Some(int(m))

\* re.sub(r'^\[..\]\s*', '', title) with the two Hangul characters of the
\* humour category between the brackets, written "yu" and "meo" here
HumorTag == <<"[", "yu", "meo", "]">>

SubHumorTag(title) ==
    IF Len(title) >= Len(HumorTag) /\ SubSeq(title, 1, Len(HumorTag)) = HumorTag
    THEN LStripChars(SubSeq(title, Len(HumorTag) + 1, Len(title)), {" "})
    ELSE title

\* re.sub(r'\[\d+\].*$', '', title)
SubReplyMark(title) ==
    LET at == {i \in 1..Len(title) :
                  /\ title[i] = "["
                  /\ DigitRun(title, i + 1) # <<>>
                  /\ i + 1 + Len(DigitRun(title, i + 1)) <= Len(title)
                  /\ title[i + 1 + Len(DigitRun(title, i + 1))] = "]"}
    IN  IF at = {} THEN title
        ELSE SubSeq(title, 1, (CHOOSE i \in at : \A j \in at : i <= j) - 1)

\* re.sub(r'^\d+', '', title)
SubLeadingDigits(title) == SubSeq(title, Len(DigitRun(title, 1)) + 1, Len(title))

HumorBoardBase == <<"https://", "web.humoruniv.com", "/board/humor/", "">>

_abs(url, base) ==
    IF StartsWith(url, "http") THEN url
    ELSE IF Contains(base, "humoruniv.com") /\ StartsWith(url, "read.html")
         THEN urljoin(HumorBoardBase, url)
    ELSE urljoin(base, url)

Post(site, title, url, author, views, likes, comments, thumbnail) ==
    [site |-> site, title |-> title, url |-> url, author |-> author, views |-> views,
     likes |-> likes, comments |-> comments, thumbnail |-> thumbnail]

\* "https://<host>/"
SiteRoot(host) == <<"https://", host, "/", "">>

\* select_one of the title link; pat is the text an a[href*="..."] selector
\* asks the href to hold, "" when the selector does not look at the href
TitleLink(row, pat) ==
    IF row.link # Nothing /\ (pat = "" \/ Contains(row.link.href, pat))
    THEN row.link
    ELSE Nothing

\* `not title or not href or len(title) < least`
Rejected(title, href, least) == title = <<>> \/ href = <<>> \/ Len(title) < least

\* the loop body most parsers share: title link, title and href test, _abs,
\* the count cells, the thumbnail
PlainRow(site, host, pat, least, row) ==
    LET link == TitleLink(row, pat)
    IN  IF link = Nothing THEN <<>>
        ELSE IF Rejected(Strip(link.text), link.href, least) THEN <<>>
        ELSE <<Post(site, Strip(link.text), _abs(link.href, SiteRoot(host)), row.author,
                    _to_int_safe(row.views), _to_int_safe(row.likes),
                    _to_int_safe(row.comments),
                    _extract_thumbnail(row.element, SiteRoot(host)))>>

parse_fmkorea_row(row) ==
    IF ~row.table \/ row.cls = "notice" THEN <<>>
    ELSE LET link == TitleLink(row, "")
         IN  IF link = Nothing THEN <<>>
             ELSE IF Rejected(Strip(link.text), link.href, 3) THEN <<>>
             ELSE IF row.tds < 5 THEN <<>>
             ELSE <<Post("fmkorea", Strip(link.text),
                         _abs(link.href, SiteRoot("www.fmkorea.com")), row.author,
                         _to_int_safe(row.views),
                         IF row.tds > 5 THEN _to_int_safe(row.likes) ELSE Nothing,
                         _to_int_safe(row.comments),
                         _extract_thumbnail(row.element, SiteRoot("www.fmkorea.com")))>>

parse_humoruniv_row(row) ==
    LET link == TitleLink(row, "read.html")
        title == Strip(SubReplyMark(Strip(link.text)))
    IN  IF link = Nothing THEN <<>>
        ELSE IF Rejected(Strip(link.text), link.href, 3) THEN <<>>
        ELSE IF Len(title) < 3 THEN <<>>
        ELSE <<Post("humoruniv", title, _abs(link.href, HumorBoardBase), Nothing,
                    _to_int_safe(row.views), _to_int_safe(row.likes),
                    _to_int_safe(row.comments),
                    _extract_thumbnail(row.element, SiteRoot("web.humoruniv.com")))>>

parse_ruliweb_row(row) ==
    IF row.cls = "notice" THEN <<>>
    ELSE LET link == TitleLink(row, "")
         IN  IF link = Nothing THEN <<>>
             ELSE IF Rejected(Strip(link.text), link.href, 5) THEN <<>>
             ELSE <<Post("ruliweb", Strip(link.text),
                         _abs(link.href, SiteRoot("bbs.ruliweb.com")), row.author,
                         _to_int_safe(row.views), _to_int_safe(row.likes),
                         IF row.comments = Nothing THEN Nothing
                         ELSE _to_int_safe(Some(StripChars(Strip(row.comments.v), {"[", "]"}))),
                         _extract_thumbnail(row.element, SiteRoot("bbs.ruliweb.com")))>>

parse_etoland_row(row) ==
    IF ~row.table \/ row.cls = "ad_list" THEN <<>>
    ELSE LET link == TitleLink(row, "")
             title == Strip(SubLeadingDigits(Strip(link.text)))
         IN  IF link = Nothing THEN <<>>
             ELSE IF Contains(link.href, "#commentContents") THEN <<>>
             ELSE IF title = <<>> \/ Len(title) < 5 THEN <<>>
             ELSE <<Post("etoland", title,
                         _abs(link.href, SiteRoot("www.etoland.co.kr")), row.author,
                         _to_int_safe(row.views), _to_int_safe(row.likes),
                         _to_int_safe(row.comments),
                         _extract_thumbnail(row.element, SiteRoot("www.etoland.co.kr")))>>

\* the nickname of the site's operator account, and the category label the
\* parser drops (both Hangul in the source)
InvenOperator == "inven-operator"
EtcCategory == "[gita]"

parse_inven_row(row) ==
    LET link == TitleLink(row, "board/webzine/2097")
        title == Strip(SubHumorTag(Strip(link.text)))
        views == IF row.container THEN _to_int_safe(Some(RemoveChar(Strip(row.views.v), ",")))
                 ELSE Nothing
        author == IF row.container THEN row.author ELSE Nothing
    IN  IF link = Nothing THEN <<>>
        ELSE IF Rejected(Strip(link.text), link.href, 5) THEN <<>>
        ELSE IF link.category # Nothing /\ Contains(link.category.v, EtcCategory) THEN <<>>
        ELSE IF author # Nothing /\ Contains(author.v, InvenOperator) THEN <<>>
        ELSE IF (row.container /\ row.views = Nothing) \/ views = Nothing THEN <<>>
        ELSE IF views.v < 3000 THEN <<>>
        ELSE <<Post("inven", title, _abs(link.href, SiteRoot("www.inven.co.kr")), author,
                    views,
                    IF row.likes = Nothing THEN Nothing
                    ELSE _to_int_safe(Some(RemoveChar(Strip(row.likes.v), ","))),
                    IF row.comments = Nothing THEN Nothing
                    ELSE _to_int_safe(Some(StripChars(Strip(row.comments.v), {"[", "]"}))),
                    _extract_thumbnail(row.element, SiteRoot("www.inven.co.kr")))>>

parse_dcinside_row(row) == PlainRow("dcinside", "gall.dcinside.com", "gall.dcinside.com", 5, row)

parse_clien_row(row) == PlainRow("clien", "www.clien.net", "", 5, row)

parse_dogdrip_row(row) == PlainRow("dogdrip", "www.dogdrip.net", "dogdrip.net", 5, row)

parse_theqoo_row(row) == PlainRow("theqoo", "theqoo.net", "theqoo.net", 5, row)

\* the loop body of the parsers that start from the link and read the
\* counts and the thumbnail from its enclosing row, when there is one
LinkFirstRow(site, host, least, row) ==
    LET link == TitleLink(row, "")
    IN  IF link = Nothing THEN <<>>
        ELSE IF Rejected(Strip(link.text), link.href, least) THEN <<>>
        ELSE <<Post(site, Strip(link.text), _abs(link.href, SiteRoot(host)),
                    IF row.container THEN row.author ELSE Nothing,
                    IF row.container THEN _to_int_safe(row.views) ELSE Nothing,
                    Nothing,
                    IF row.container THEN _to_int_safe(row.comments) ELSE Nothing,
                    IF row.container THEN _extract_thumbnail(row.element, SiteRoot(host))
                    ELSE Nothing)>>

parse_mlbpark_row(row) == LinkFirstRow("mlbpark", "mlbpark.donga.com", 5, row)

\* parse_82cook sets no author
parse_82cook_row(row) ==
    LinkFirstRow("82cook", "www.82cook.com", 5, [row EXCEPT !.author = Nothing])

parse_damoang_row(row) ==
    LET link == TitleLink(row, "")
        comments == _to_int_safe(row.comments)
    IN  IF link = Nothing THEN <<>>
        ELSE IF Rejected(Strip(link.text), link.href, 5) THEN <<>>
        ELSE IF ~row.container \/ row.promo \/ row.notice_mark THEN <<>>
        ELSE IF comments = Nothing THEN <<>>
        ELSE IF comments.v < 5 THEN <<>>
        ELSE <<Post("damoang", Strip(link.text), _abs(link.href, SiteRoot("damoang.net")),
                    Nothing, Nothing, Nothing, comments,
                    _extract_thumbnail(row.element, SiteRoot("damoang.net")))>>

parse_ddanzi_row(row) ==
    IF ~row.table \/ row.cls = "notice" \/ row.tds < 5 THEN <<>>
    ELSE LET first == TitleLink(row, "/free/")
             link == IF first # Nothing THEN first ELSE TitleLink(row, "mid=free")
         IN  IF link = Nothing THEN <<>>
             ELSE IF Strip(link.text) = <<>> \/ Len(Strip(link.text)) < 5 THEN <<>>
             ELSE <<Post("ddanzi", Strip(link.text),
                         _abs(link.href, SiteRoot("www.ddanzi.com")), row.author,
                         _to_int_safe(row.views), _to_int_safe(row.likes), Nothing,
                         _extract_thumbnail(row.element, SiteRoot("www.ddanzi.com")))>>

parse_bobaedream_row(row) ==
    LET link == TitleLink(row, "")
        likes == _to_int_safe(row.likes)
    IN  IF link = Nothing THEN <<>>
        ELSE IF Rejected(Strip(link.text), link.href, 5) THEN <<>>
        ELSE IF row.likes # Nothing /\ likes = Nothing THEN <<>>
        ELSE IF row.likes # Nothing /\ likes.v < 3 THEN <<>>
        ELSE <<Post("bobaedream", Strip(link.text),
                    _abs(link.href, SiteRoot("www.bobaedream.co.kr")), row.author,
                    _to_int_safe(row.views), likes, _to_int_safe(row.comments),
                    _extract_thumbnail(row.element, SiteRoot("www.bobaedream.co.kr")))>>

\* the query parameters other than id and no, which parse_ppomppu drops
DroppedParams == {"&page=2", "&divpage=3"}

KeptParam(tok) == tok \notin DroppedParams

\* urlunparse(parsed._replace(query=urlencode({id, no})))
CanonicalQuery(url) == SelectSeq(url, KeptParam)

parse_ppomppu_row(row, base_url) ==
    LET link == TitleLink(row, "")
    IN  IF link = Nothing THEN <<>>
        ELSE IF Rejected(Strip(link.text), link.href, 5) THEN <<>>
        ELSE IF ~Contains(link.href, "view.php?id=freeboard") THEN <<>>
        ELSE <<Post("ppomppu", Strip(link.text),
                    CanonicalQuery(_abs(link.href, base_url)),
                    IF row.container THEN row.author ELSE Nothing,
                    IF row.container THEN _to_int_safe(row.views) ELSE Nothing,
                    Nothing, Nothing,
                    IF row.container THEN _extract_thumbnail(row.element, base_url)
                    ELSE Nothing)>>

parse_slrclub_row(row) ==
    IF ~row.table \/ row.notice_mark \/ ~row.num_td THEN <<>>
    ELSE LET link == TitleLink(row, "id=free")
             m == IF row.comments = Nothing THEN <<>>
                  ELSE StripChars(Strip(row.comments.v), {"[", "]"})
         IN  IF link = Nothing THEN <<>>
             ELSE IF Rejected(Strip(link.text), link.href, 3) THEN <<>>
             ELSE <<Post("slrclub", Strip(link.text),
                         _abs(link.href, SiteRoot("www.slrclub.com")), row.author,
                         _to_int_safe(row.views), _to_int_safe(row.likes),
                         IF isdigit(m) THEN Some(int(m)) ELSE Nothing,
                         _extract_thumbnail(row.element, SiteRoot("www.slrclub.com")))>>

ParseSites ==
    {"fmkorea", "humoruniv", "ruliweb", "etoland", "inven", "dcinside", "clien",
     "dogdrip", "theqoo", "mlbpark", "82cook", "damoang", "ddanzi", "bobaedream",
     "ppomppu", "slrclub"}

\* what one row adds to posts
RowPosts(site, row, base_url) ==
    CASE site = "fmkorea" -> parse_fmkorea_row(row)
      [] site = "humoruniv" -> parse_humoruniv_row(row)
      [] site = "ruliweb" -> parse_ruliweb_row(row)
      [] site = "etoland" -> parse_etoland_row(row)
      [] site = "inven" -> parse_inven_row(row)
      [] site = "dcinside" -> parse_dcinside_row(row)
      [] site = "clien" -> parse_clien_row(row)
      [] site = "dogdrip" -> parse_dogdrip_row(row)
      [] site = "theqoo" -> parse_theqoo_row(row)
      [] site = "mlbpark" -> parse_mlbpark_row(row)
      [] site = "82cook" -> parse_82cook_row(row)
      [] site = "damoang" -> parse_damoang_row(row)
      [] site = "ddanzi" -> parse_ddanzi_row(row)
      [] site = "bobaedream" -> parse_bobaedream_row(row)
      [] site = "ppomppu" -> parse_ppomppu_row(row, base_url)
      [] site = "slrclub" -> parse_slrclub_row(row)

RECURSIVE PagePosts(_, _, _)
PagePosts(site, rows, base_url) ==
    IF rows = <<>> THEN <<>>
    ELSE RowPosts(site, Head(rows), base_url) \o PagePosts(site, Tail(rows), base_url)

\* parse_<site>(base_url, html), html being the rows its selector finds
parse(site, rows, base_url) == dedupe_posts(PagePosts(site, rows, base_url))

\* the parsers' inputs
MaxTitleBody == 5

\* per adapter: the host, the root-relative path of a post link up to the
\* post id, and its relative form
SiteLinks ==
    [fmkorea |-> [host |-> "www.fmkorea.com",
                  root |-> <<"/", "index.php?mid=humor&", "document_srl=">>],
     humoruniv |-> [host |-> "web.humoruniv.com",
                    root |-> <<"/", "board/humor/", "read.html", "?table=pds&", "number=">>],
     ruliweb |-> [host |-> "bbs.ruliweb.com", root |-> <<"/", "best/board/300143/", "read/">>],
     etoland |-> [host |-> "www.etoland.co.kr",
                  root |-> <<"/", "bbs/board.php?bo_table=etohumor07&", "wr_id=">>],
     inven |-> [host |-> "www.inven.co.kr", root |-> <<"/", "board/webzine/2097/">>],
     dcinside |-> [host |-> "gall.dcinside.com",
                   root |-> <<"/", "board/view/?id=dcbest&", "no=">>],
     clien |-> [host |-> "www.clien.net", root |-> <<"/", "service/board/park/">>],
     dogdrip |-> [host |-> "dogdrip.net", root |-> <<"/", "dogdrip/">>],
     theqoo |-> [host |-> "theqoo.net", root |-> <<"/", "hot/">>],
     mlbpark |-> [host |-> "mlbpark.donga.com", root |-> <<"/", "mp/b.php?b=bullpen&", "id=">>],
     82cook |-> [host |-> "www.82cook.com", root |-> <<"/", "entiz/read.php?bn=15&", "num=">>],
     damoang |-> [host |-> "damoang.net", root |-> <<"/", "free/">>],
     ddanzi |-> [host |-> "www.ddanzi.com", root |-> <<"/free/">>],
     bobaedream |-> [host |-> "www.bobaedream.co.kr",
                     root |-> <<"/", "view?code=strange&", "No=">>],
     ppomppu |-> [host |-> "www.ppomppu.co.kr",
                  root |-> <<"/", "zboard/", "view.php?id=freeboard", "&page=2", "&", "no=">>],
     slrclub |-> [host |-> "www.slrclub.com",
                  root |-> <<"/", "bbs/vx2.php?", "id=free", "&", "no=">>]]

RelLink(site) ==
    CASE site = "humoruniv" -> <<"read.html", "?table=pds&", "number=">>
      [] site = "ddanzi" -> <<"index.php?", "mid=free", "&", "document_srl=">>
      [] site = "ppomppu" -> <<"view.php?id=freeboard", "&page=2", "&", "no=">>
      [] OTHER -> Tail(SiteLinks[site].root)

AbsHref(site, id) == <<"https://", SiteLinks[site].host>> \o SiteLinks[site].root \o <<id>>

ParseHrefs(site) ==
    {<<>>,
     AbsHref(site, "1"),
     AbsHref(site, "2"),
     AbsHref(site, "1") \o <<"#commentContents">>,
     SiteLinks[site].root \o <<"1">>,
     RelLink(site) \o <<"1">>,
     <<"httpdocs/">> \o RelLink(site) \o <<"1">>}

\* the base_url each adapter is run with (SITES and the multi-page drivers)
ParseBase(site) ==
    CASE site = "ppomppu" ->
            <<"https://", "www.ppomppu.co.kr", "/zboard/",
              "zboard.php?id=freeboard&hotlist_flag=999">>
      [] OTHER -> SiteRoot(SiteLinks[site].host)

TitleBody(n) == [k \in 1..n |-> "x"]

ParseTitles ==
    {prefix \o TitleBody(n) \o suffix :
        prefix \in {<<>>, <<" ">>, HumorTag, HumorTag \o <<" ">>, <<"1", "2">>},
        n \in 0..MaxTitleBody,
        suffix \in {<<>>, <<"[", "3", "]", "+", "1">>}}

GoodImg == Img(ImgGood, NoLazy, <<>>, <<>>)

\* a row every adapter makes a record of
Row(text, href) ==
    [table |-> TRUE, cls |-> "", tds |-> 6,
     link |-> [text |-> text, href |-> href, category |-> Some(<<"[yumeo]">>)],
     container |-> TRUE, promo |-> FALSE, notice_mark |-> FALSE, num_td |-> TRUE,
     views |-> Some(<<"3", ",", "0", "0", "0">>), likes |-> Some(<<"3">>),
     comments |-> Some(<<"[", "5", "]">>), author |-> Some(<<"nick">>),
     element |-> [imgs |-> <<GoodImg>>]]

OrdinaryRow(site) == Row(TitleBody(5), AbsHref(site, "1"))

\* the ordinary row with one thing about it changed
OddRows(site) ==
    LET r == OrdinaryRow(site)
    IN  {[r EXCEPT !.table = FALSE], [r EXCEPT !.cls = "notice"], [r EXCEPT !.cls = "ad_list"],
         [r EXCEPT !.tds = 4], [r EXCEPT !.tds = 5], [r EXCEPT !.link = Nothing],
         [r EXCEPT !.container = FALSE], [r EXCEPT !.promo = TRUE],
         [r EXCEPT !.notice_mark = TRUE], [r EXCEPT !.num_td = FALSE],
         [r EXCEPT !.views = Nothing], [r EXCEPT !.views = Some(<<>>)],
         [r EXCEPT !.views = Some(<<"2", ",", "9", "9", "9">>)],
         [r EXCEPT !.views = Some(<<" ", "1", "2", ",", "3", "4", "5", " ">>)],
         [r EXCEPT !.likes = Nothing], [r EXCEPT !.likes = Some(<<"2">>)],
         [r EXCEPT !.likes = Some(<<"-">>)],
         [r EXCEPT !.comments = Nothing], [r EXCEPT !.comments = Some(<<"4">>)],
         [r EXCEPT !.comments = Some(<<"1", "2">>)],
         [r EXCEPT !.author = Nothing], [r EXCEPT !.author = Some(<<InvenOperator>>)],
         [r EXCEPT !.link.category = Some(<<EtcCategory>>)],
         [r EXCEPT !.link.category = Nothing],
         [r EXCEPT !.element = [imgs |-> <<>>]]}

ParseRows(site) ==
    {Row(text, href) : text \in ParseTitles, href \in ParseHrefs(site)} \cup OddRows(site)

\* two-row pages: the same or another post, under the same or another title
PairRows(site) ==
    {Row(text, href) : text \in {TitleBody(5), TitleBody(6)},
                       href \in {AbsHref(site, "1"), AbsHref(site, "2")}}

ParsePages(site) ==
    {<<r>> : r \in ParseRows(site)} \cup {<<r1, r2>> : r1 \in PairRows(site), r2 \in PairRows(site)}

ParseInputs ==
    UNION {{[site |-> site, rows |-> rows, base_url |-> ParseBase(site)] :
                rows \in ParsePages(site)} : site \in ParseSites}

ParseInit ==
    /\ pIn \in ParseInputs
    /\ pPc = "parse"
    /\ pOut = <<>>

ParseIdle ==
    /\ pPc = "off"
    /\ pIn = Nothing
    /\ pOut = <<>>

\* parse_<site>(base_url, html)
Parse ==
    /\ pPc = "parse"
    /\ pOut' = parse(pIn.site, pIn.rows, pIn.base_url)
    /\ pPc' = "ret"
    /\ UNCHANGED <<pIn, notParse>>

ParseNext == Parse

\* the least title length each adapter asks for
MinTitleLen(site) == IF site \in {"fmkorea", "humoruniv", "slrclub"} THEN 3 ELSE 5

\* an absolute URL: an http(s) scheme and a host
IsAbsoluteUrl(url) == Len(url) >= 2 /\ Scheme(url) \in {"http://", "https://"}

\* C8: every record a parse function returns has a title of at least the
\* adapter's minimum length (3 or 5) and a non-empty absolute url
C8_RecordsValid ==
    pPc = "ret" =>
        \A k \in 1..Len(pOut) :
            /\ Len(pOut[k].title) >= MinTitleLen(pIn.site)
            /\ pOut[k].url # <<>>
            /\ IsAbsoluteUrl(pOut[k].url)

\* C25: every record parse_bobaedream returns has a like count of at least
\* 3; every record parse_inven returns has a view count of at least 3000 and
\* an author that is not the operating account; a row whose count is
\* missing or unreadable yields no record.
C25_QualityFilters ==
    pPc = "ret" =>
        /\ pIn.site = "bobaedream" =>
              \A k \in 1..Len(pOut) : pOut[k].likes # Nothing /\ pOut[k].likes.v >= 3
        /\ pIn.site = "inven" =>
              \A k \in 1..Len(pOut) :
                  /\ pOut[k].views # Nothing
                  /\ pOut[k].views.v >= 3000
                  /\ pOut[k].author # Nothing => ~Contains(pOut[k].author.v, InvenOperator)

(***************************************************************************)
(* _to_int_safe (crawler/main.py 110-115) on its own: the texts of         *)
(* numeric cells, character by character.  "hoe" stands for the Hangul     *)
(* counter the view counts end in.                                         *)
(***************************************************************************)
MaxText == 4

IntChars == {"0", "1", ",", "[", " ", "x"}

IntTexts ==
    SeqsUpTo(IntChars, MaxText)
    \cup {<<"1", ",", "2", "3", "4", "hoe">>, <<"[", "1", "2", "]">>,
          <<"1", ",", "2", "3", "4", ",", "5", "6", "7">>}

ToIntInputs == {Nothing} \cup {Some(t) : t \in IntTexts}

ToIntInit ==
    /\ nPc = "call"
    /\ nIn \in ToIntInputs
    /\ nOut = Nothing

ToIntIdle ==
    /\ nPc = "off"
    /\ nIn = Nothing
    /\ nOut = Nothing

\* _to_int_safe(text)
ToIntSafe ==
    /\ nPc = "call"
    /\ nOut' = _to_int_safe(nIn)
    /\ nPc' = "ret"
    /\ UNCHANGED <<nIn, notToInt>>

ToIntNext == ToIntSafe

RECURSIVE Pow10(_)
Pow10(n) == IF n = 0 THEN 1 ELSE 10 * Pow10(n - 1)

RECURSIVE SumTo(_, _, _)
\* the number the digits t[i..j] spell
SumTo(t, i, j) == IF i > j THEN 0 ELSE DigitVal(t[i]) * Pow10(j - i) + SumTo(t, i + 1, j)

NoCommas(t) == SelectSeq(t, LAMBDA c : c # ",")

\* C12: _to_int_safe returns the non-negative integer spelled by the first
\* run of digits of the text with its commas removed, and None (never 0)
\* when the text is absent, empty or has no digit.
C12_FirstIntegerRun ==
    nPc = "ret" =>
        IF nIn = Nothing \/ \A k \in 1..Len(nIn.v) : nIn.v[k] \notin DigitChars
        THEN nOut = Nothing
        ELSE LET t == NoCommas(nIn.v)
             IN  \E i \in 1..Len(t) : \E j \in i..Len(t) :
                    /\ \A k \in 1..(i - 1) : t[k] \notin DigitChars
                    /\ \A k \in i..j : t[k] \in DigitChars
                    /\ j < Len(t) => t[j + 1] \notin DigitChars
                    /\ nOut = Some(SumTo(t, i, j))
                    /\ nOut.v >= 0

\* "1,234hoe" gives 1234
C12_Witness ==
    /\ nPc = "ret"
    /\ nIn = Some(<<"1", ",", "2", "3", "4", "hoe">>)
    /\ nOut = Some(1234)

(***************************************************************************)
(* The multi-page collect drivers: crawl_fmkorea, crawl_humoruniv_multi_   *)
(* pages, crawl_damoang_multi_pages, crawl_ddanzi_multi_pages,             *)
(* crawl_bobaedream_multi_pages, crawl_ppomppu_multi_pages.  Each requests *)
(* its listing pages in order, one request a page, and extends all_posts   *)
(* with what the parser makes of a page; crawl_damoang_multi_pages then    *)
(* hands the deduplicated list to get_damoang_post_details.                *)
(***************************************************************************)
\* the stop of `for page in range(1, stop)`, less one
DriverPageCount ==
    [fmkorea |-> 2, humoruniv |-> 2, damoang |-> 3, ddanzi |-> 2, bobaedream |-> 5,
     ppomppu |-> 2]

DriverNames == DOMAIN DriverPageCount

DamoangMinViews == 1000

\* the URL of the post with this id, as the source's listing links to it
DriverUrl(site, id) ==
    CASE site = "fmkorea" -> <<"https://", "www.fmkorea.com", "/", "index.php?", "document_srl=", id>>
      [] site = "humoruniv" ->
            <<"https://", "web.humoruniv.com", "/board/humor/", "read.html", "?table=pds&",
              "number=", id>>
      [] site = "bobaedream" ->
            <<"https://", "www.bobaedream.co.kr", "/", "view?code=strange&", "No=", id>>
      [] site = "ppomppu" ->
            <<"https://", "www.ppomppu.co.kr", "/zboard/", "view.php?id=freeboard", "&", "no=", id>>
      [] site = "ddanzi" ->
            \* parse_ddanzi takes a row's /free/ link or, in a row without
            \* one, its mid=free link
            IF id = "2"
            THEN <<"https://", "www.ddanzi.com", "/", "index.php?mid=free&", "document_srl=", id>>
            ELSE <<"https://", "www.ddanzi.com", "/free/", id>>
      [] OTHER -> <<"https://", site, "/free/", id>>

DriverPost(site, id, title) ==
    [site |-> site, url |-> DriverUrl(site, id), title |-> title, views |-> Nothing,
     likes |-> Nothing]

\* what the parser can make of a listing page: nothing when the container
\* or the rows are not found, else its records
PageParses(site) ==
    {<<>>,
     <<DriverPost(site, "1", "t1")>>,
     <<DriverPost(site, "1", "t2"), DriverPost(site, "2", "t1")>>,
     <<DriverPost(site, "2", "t1")>>}

\* a request that gives no page: the get raises (a timeout, a connection
\* reset), raise_for_status raises, or the body decodes to ""
PageFailures == {"timeout", "reset", "http_error", "empty_body"}

PageEvent(page, outcome, posts) == [page |-> page, outcome |-> outcome, posts |-> posts]

\* the text next to the view icon of a detail page, Nothing without the icon
DetailViewTexts ==
    {Nothing, Some(<<"x">>), Some(<<"9", "9", "9">>), Some(<<"1", ",", "0", "0", "0">>),
     Some(<<"5", "0", "0", "0">>)}

\* what the request of a candidate's detail page gives
DetailOutcomes ==
    {[how |-> "failed", views_text |-> Nothing, likes_text |-> Nothing]}
    \cup {[how |-> "page", views_text |-> v, likes_text |-> Some(<<"7">>)] : v \in DetailViewTexts}

DriverInit ==
    /\ vPc = "page"
    /\ vSite \in DriverNames
    /\ vPage = 1
    /\ vLog = <<>>
    /\ vAll = <<>>
    /\ vDet = <<>>
    /\ vOut = <<>>

DriverIdle ==
    /\ vPc = "off"
    /\ vSite = None
    /\ vPage = 1
    /\ vLog = <<>>
    /\ vAll = <<>>
    /\ vDet = <<>>
    /\ vOut = <<>>

\* a filter that also keeps the candidates whose view count is not read
DetailKeepsUnread(views) == views = Nothing \/ views.v >= DamoangMinViews

\* if views is not None and views >= 1000
DetailKeeps(views) == views # Nothing /\ views.v >= DamoangMinViews

\* a driver that leaves the loop at the first page that fails
AfterFailureBreak(page, site) == DriverPageCount[site] + 1

\* except Exception: continue (crawl_fmkorea: if not html: continue)
AfterFailure(page, site) == page + 1

\* the page arrives: posts = parse_<site>(url, html); all_posts.extend(posts)
DriverPageParsed ==
    /\ vPc = "page"
    /\ vPage <= DriverPageCount[vSite]
    /\ \E posts \in PageParses(vSite) :
          /\ vLog' = Append(vLog, PageEvent(vPage, "ok", posts))
          /\ vAll' = vAll \o posts
    /\ vPage' = vPage + 1
    /\ UNCHANGED <<vPc, vSite, vDet, vOut>>
    /\ UNCHANGED notDriver

\* the one request of the page gives no page: the page adds nothing
DriverPageUnavailable ==
    /\ vPc = "page"
    /\ vPage <= DriverPageCount[vSite]
    /\ \E o \in PageFailures : vLog' = Append(vLog, PageEvent(vPage, o, <<>>))
    /\ vPage' = AfterFailure(vPage, vSite)
    /\ UNCHANGED <<vPc, vSite, vAll, vDet, vOut>>
    /\ UNCHANGED notDriver

\* after the loop: all_posts = dedupe_posts(all_posts); the drivers other
\* than crawl_damoang_multi_pages return it
DriverDedupe ==
    /\ vPc = "page"
    /\ vPage > DriverPageCount[vSite]
    /\ vAll' = dedupe_posts(vAll)
    /\ IF vSite = "damoang"
       THEN vPc' = "detail" /\ UNCHANGED vOut
       ELSE vPc' = "done" /\ vOut' = dedupe_posts(vAll)
    /\ UNCHANGED <<vSite, vPage, vLog, vDet>>
    /\ UNCHANGED notDriver

\* await asyncio.sleep(0.5), in tenths of a second
DetailDelay == 5

\* the time the iteration sleeps before the next request: the sleep is the
\* last statement under `if html:` inside the try, so an iteration that
\* leaves through the except clause, or whose page decodes to "", does not
\* reach it
SleepAfter(d) == IF d.how = "page" THEN DetailDelay ELSE 0

\* one iteration of the loop of get_damoang_post_details: the candidate is
\* appended to detailed_posts with the counts of its detail page when the
\* view count is read and is at least 1000
DetailRead ==
    /\ vPc = "detail"
    /\ Len(vDet) < Len(vAll)
    /\ \E d \in DetailOutcomes :
          LET post == vAll[Len(vDet) + 1]
              views == _to_int_safe(d.views_text)
              likes == _to_int_safe(d.likes_text)
          IN  /\ vDet' = Append(vDet, [how |-> d.how, views_text |-> d.views_text,
                                      likes_text |-> d.likes_text, slept |-> SleepAfter(d)])
              /\ vOut' = IF d.how = "page" /\ DetailKeeps(views)
                         THEN Append(vOut, [post EXCEPT !.views = views, !.likes = likes])
                         ELSE vOut
    /\ UNCHANGED <<vPc, vSite, vPage, vLog, vAll>>
    /\ UNCHANGED notDriver

\* return detailed_posts
DetailReturn ==
    /\ vPc = "detail"
    /\ Len(vDet) = Len(vAll)
    /\ vPc' = "done"
    /\ UNCHANGED <<vSite, vPage, vLog, vAll, vDet, vOut>>
    /\ UNCHANGED notDriver

DriverNext ==
    DriverPageParsed \/ DriverPageUnavailable \/ DriverDedupe \/ DetailRead \/ DetailReturn

\* the records of the pages that arrived, in page order
RECURSIVE OkConcat(_)
OkConcat(log) ==
    IF log = <<>> THEN <<>>
    ELSE (IF Head(log).outcome = "ok" THEN Head(log).posts ELSE <<>>) \o OkConcat(Tail(log))

\* every page of the driver has been requested, in order
AllPagesRequested ==
    /\ \A p \in 1..DriverPageCount[vSite] : \E k \in 1..Len(vLog) : vLog[k].page = p
    /\ \A k \in 1..(Len(vLog) - 1) : vLog[k].page <= vLog[k + 1].page

\* the candidates the detail pass keeps: the page came, the view count is
\* read from it and is at least 1000
KeptCandidates ==
    {i \in 1..Len(vDet) :
        /\ vDet[i].how = "page"
        /\ _to_int_safe(vDet[i].views_text) # Nothing
        /\ _to_int_safe(vDet[i].views_text).v >= 1000}

\* a record as the listing gave it
AsListed(post) == [post EXCEPT !.views = Nothing, !.likes = Nothing]

\* C15: in every multi-page driver a page that fails or whose container is
\* not found adds no record, the later pages are still requested, and the
\* driver returns the deduplicated concatenation, in page order, of the
\* pages that arrived.
C15_DriversReturnDedupedPages ==
    vPc = "done" =>
        /\ AllPagesRequested
        /\ vOut = dedupe_posts(OkConcat(vLog))

\* C15 as amended: the same, except that crawl_damoang_multi_pages returns,
\* in that order, the records of the deduplicated concatenation that its
\* detail pass keeps.
C15_DriversSkipFailedPages ==
    vPc = "done" =>
        /\ AllPagesRequested
        /\ vSite # "damoang" => vOut = dedupe_posts(OkConcat(vLog))
        /\ vSite = "damoang" =>
              LET cand == dedupe_posts(OkConcat(vLog))
              IN  /\ Len(vDet) = Len(cand)
                  /\ Len(vOut) = Cardinality(KeptCandidates)
                  /\ \A i \in KeptCandidates :
                        AsListed(vOut[Cardinality({m \in KeptCandidates : m <= i})]) = cand[i]

\* the first page times out, the third has no container, the fourth
\* repeats a post of the second: all five pages are requested
C15_Witness ==
    /\ vPc = "done"
    /\ vSite = "bobaedream"
    /\ Len(vLog) = 5
    /\ vLog[1].outcome = "timeout"
    /\ vLog[2] = PageEvent(2, "ok", <<DriverPost("bobaedream", "1", "t1")>>)
    /\ vLog[3] = PageEvent(3, "ok", <<>>)
    /\ vLog[4].outcome = "ok"
    /\ Len(vLog[4].posts) = 2
    /\ vOut = <<DriverPost("bobaedream", "1", "t1"), DriverPost("bobaedream", "2", "t1")>>

\* C16: a listing page whose request fails transiently (timeout, connection
\* reset, non-200 status) is requested 3 times before the driver goes on
\* without it.
C16_ListingFetchRetried ==
    \A k \in 1..Len(vLog) :
        (vLog[k].outcome \in {"timeout", "reset", "http_error"} /\ vLog[k].page < vPage) =>
            Cardinality({j \in 1..Len(vLog) : vLog[j].page = vLog[k].page}) = FetchAttempts

\* C20: every record crawl_damoang_multi_pages returns has the view count
\* read from its own detail page, which is at least 1000; the candidates
\* whose detail page does not come, has no readable view count or has one
\* below 1000 are not returned.
C20_DamoangViewThreshold ==
    (vPc = "done" /\ vSite = "damoang") =>
        /\ \A j \in 1..Len(vOut) :
              \E i \in 1..Len(vDet) :
                 /\ vAll[i].url = vOut[j].url
                 /\ vDet[i].how = "page"
                 /\ vOut[j].views = _to_int_safe(vDet[i].views_text)
                 /\ vOut[j].views # Nothing
                 /\ vOut[j].views.v >= 1000
        /\ \A i \in 1..Len(vDet) :
              (\/ vDet[i].how = "failed"
               \/ _to_int_safe(vDet[i].views_text) = Nothing
               \/ _to_int_safe(vDet[i].views_text).v < 1000) =>
                  \A j \in 1..Len(vOut) : vOut[j].url # vAll[i].url

\* two candidates: the detail page of the first shows 999 views and it is
\* dropped, that of the second shows 1,000 and it is returned with them
C20_Witness ==
    /\ vPc = "done"
    /\ vSite = "damoang"
    /\ Len(vDet) = 2
    /\ vDet[1].views_text = Some(<<"9", "9", "9">>)
    /\ vDet[2].views_text = Some(<<"1", ",", "0", "0", "0">>)
    /\ Len(vOut) = 1
    /\ vOut[1].url = vAll[2].url
    /\ vOut[1].views = Some(1000)

\* C21: the detail pages are requested one after the other, and between two
\* consecutive detail-page requests the fixed delay elapses, whatever the
\* earlier request gave.
C21_DetailDelayEveryRequest ==
    \A i \in 1..(Len(vDet) - 1) : vDet[i].slept = DetailDelay

\* the substrings after which dedupe_posts reads a post number
IdMarkers == {"number=", "document_srl=", "read/", "wr_id=", "board/webzine/2097/", "No=", "no="}

\* the post number a URL shows after one of the markers, None without one
ExposedId(url) ==
    LET hits == {i \in 1..(Len(url) - 1) : url[i] \in IdMarkers /\ url[i + 1] \in DigitTokens}
    IN  IF hits = {} THEN None
        ELSE url[(CHOOSE i \in hits : \A j \in hits : i <= j) + 1]

\* C18: the key of a collected record whose URL shows a numeric post number
\* is "<the record's own source>_<number>", the key of any other record is
\* its URL, and the number-based keys of a record of this source and of a
\* record another source's driver can collect are never equal.
C18_SourceAwareKey ==
    \A i \in 1..Len(vAll) :
        LET p == vAll[i]
            id == ExposedId(p.url)
        IN  /\ id # None => url_key(p) = <<p.site \o "_", id>>
            /\ id = None => url_key(p) = p.url
            /\ \A s \in DriverNames \ {p.site} : \A ps \in PageParses(s) :
                  \A j \in 1..Len(ps) :
                      (url_key(p) # p.url /\ url_key(ps[j]) # ps[j].url)
                          => url_key(p) # url_key(ps[j])

(***************************************************************************)
(* extractor.py: _sanitize_html, _resolve_media, extract_content.          *)
(*                                                                         *)
(* A parsed document is a forest of nodes:                                 *)
(*   [k |-> "text", len, stripped]   a string, its length and its length   *)
(*                                   after strip()                         *)
(*   [k |-> "comment"]                                                     *)
(*   [k |-> "el", tag, attrs, kids]  attrs maps the names of the           *)
(*                                   attributes present to their values    *)
(* Serialized markup is the sequence of its pieces: "open", "close" and    *)
(* "void" tags, "text", "comment".  A style value is the sequence of its   *)
(* declarations.                                                           *)
(***************************************************************************)
ALLOWED_TAGS ==
    {"p", "br", "img", "strong", "em", "b", "i",
     "h1", "h2", "h3", "h4", "h5", "h6",
     "ul", "ol", "li", "blockquote", "a", "div", "span",
     "table", "tr", "td", "th", "thead", "tbody",
     "figure", "figcaption", "video", "source"}

\* ALLOWED_ATTRS.get(tag, set()) | ALLOWED_ATTRS["*"]
ALLOWED_ATTRS(tag) ==
    (CASE tag = "img" -> {"src", "alt", "loading", "referrerpolicy"}
       [] tag = "a" -> {"href"}
       [] tag = "video" -> {"src", "poster", "controls", "autoplay", "loop", "muted",
                            "playsinline"}
       [] tag = "source" -> {"src", "type"}
       [] OTHER -> {})
    \cup {"style"}

ALLOWED_CSS_PROPS ==
    {"text-align", "font-size", "font-weight", "font-style",
     "color", "background-color",
     "margin", "margin-top", "margin-bottom", "margin-left", "margin-right",
     "padding", "padding-top", "padding-bottom", "padding-left", "padding-right",
     "width", "max-width", "height",
     "display", "text-decoration", "line-height", "letter-spacing",
     "border", "border-bottom", "border-top"}

\* the tags _sanitize_html removes together with their content
RiskTags == {"script", "style", "iframe", "noscript", "object", "embed", "form", "input"}

\* the tags the tree builder gives no closing tag
VoidTags == {"br", "img", "input", "source", "embed", "hr", "meta", "link"}

TextNode(len, stripped) == [k |-> "text", len |-> len, stripped |-> stripped]
Comment == [k |-> "comment"]
El(tag, attrs, kids) == [k |-> "el", tag |-> tag, attrs |-> attrs, kids |-> kids]
NoAttrs == [a \in {} |-> <<>>]

\* the declarations of a style value: property and whether the value holds
\* url(, expression(, javascript: or import; "" for a piece without ":"
CssProp(decl) ==
    CASE decl = "color: red" -> "color"
      [] decl = "COLOR:red" -> "color"
      [] decl = "position: fixed" -> "position"
      [] decl = "background-color: url(x)" -> "background-color"
      [] decl = "width: expression(1)" -> "width"
      [] OTHER -> ""

CssDangerous(decl) == decl \in {"background-color: url(x)", "width: expression(1)"}

\* f"{prop}: {value}" of a declaration that is kept
CssNormal(decl) == IF decl = "COLOR:red" THEN "color: red" ELSE decl

RECURSIVE _sanitize_css(_)
_sanitize_css(style) ==
    IF style = <<>> THEN <<>>
    ELSE LET decl == Head(style)
         IN  (IF CssProp(decl) = "" \/ CssDangerous(decl) \/ CssProp(decl) \notin ALLOWED_CSS_PROPS
              THEN <<>>
              ELSE <<CssNormal(decl)>>) \o _sanitize_css(Tail(style))

\* for tag in soup.find_all([...risk tags...]): tag.decompose()
RECURSIVE Decompose(_)
Decompose(forest) ==
    IF forest = <<>> THEN <<>>
    ELSE LET n == Head(forest)
         IN  (IF n.k # "el" THEN <<n>>
              ELSE IF n.tag \in RiskTags THEN <<>>
              ELSE <<[n EXCEPT !.kids = Decompose(n.kids)]>>) \o Decompose(Tail(forest))

\* a pass that drops every tag that is not allowed, content included, the
\* document's own html and body aside
RECURSIVE DropDisallowed(_)
DropDisallowed(forest) ==
    IF forest = <<>> THEN <<>>
    ELSE LET n == Head(forest)
         IN  (IF n.k # "el" THEN <<n>>
              ELSE IF n.tag \in {"html", "body"} THEN DropDisallowed(n.kids)
              ELSE IF n.tag \notin ALLOWED_TAGS THEN <<>>
              ELSE <<[n EXCEPT !.kids = DropDisallowed(n.kids)]>>) \o DropDisallowed(Tail(forest))

\* for tag in soup.find_all(True): if tag.name not in ALLOWED_TAGS: tag.unwrap()
RECURSIVE Unwrap(_)
Unwrap(forest) ==
    IF forest = <<>> THEN <<>>
    ELSE LET n == Head(forest)
         IN  (IF n.k # "el" THEN <<n>>
              ELSE IF n.tag \notin ALLOWED_TAGS THEN Unwrap(n.kids)
              ELSE <<[n EXCEPT !.kids = Unwrap(n.kids)]>>) \o Unwrap(Tail(forest))

\* the attribute loop of one tag: names outside the allow-list go, the style
\* value is sanitized and goes when nothing of it is left
FilterAttrs(tag, attrs) ==
    LET kept == {a \in DOMAIN attrs :
                    /\ a \in ALLOWED_ATTRS(tag)
                    /\ a = "style" => _sanitize_css(attrs[a]) # <<>>}
    IN  [a \in kept |-> IF a = "style" THEN _sanitize_css(attrs[a]) ELSE attrs[a]]

RECURSIVE CleanAttrs(_)
CleanAttrs(forest) ==
    IF forest = <<>> THEN <<>>
    ELSE LET n == Head(forest)
         IN  (IF n.k # "el" THEN <<n>>
              ELSE <<[n EXCEPT !.attrs = FilterAttrs(n.tag, n.attrs),
                               !.kids = CleanAttrs(n.kids)]>>) \o CleanAttrs(Tail(forest))

\* for a in soup.find_all("a", href=True): unwrap a javascript: or empty
\* href, make the other relative hrefs absolute
RECURSIVE FixAnchors(_, _)
FixAnchors(forest, base_url) ==
    IF forest = <<>> THEN <<>>
    ELSE LET n == Head(forest)
             kids == FixAnchors(n.kids, base_url)
             href == n.attrs["href"]
         IN  (IF n.k # "el" THEN <<n>>
              ELSE IF n.tag # "a" \/ "href" \notin DOMAIN n.attrs THEN <<[n EXCEPT !.kids = kids]>>
              ELSE IF href = <<>> \/ StartsWith(Lower(href), "javascript:") THEN kids
              ELSE IF /\ base_url # <<>>
                      /\ ~(\E pre \in {"http", "mailto:", "#"} : StartsWith(href, pre))
                   THEN <<[n EXCEPT !.attrs["href"] = urljoin(base_url, href), !.kids = kids]>>
              ELSE <<[n EXCEPT !.kids = kids]>>) \o FixAnchors(Tail(forest), base_url)

\* str(soup): the pieces of the markup, in document order
RECURSIVE Serialize(_)
Serialize(forest) ==
    IF forest = <<>> THEN <<>>
    ELSE LET n == Head(forest)
         IN  (IF n.k # "el" THEN <<n>>
              ELSE IF n.tag \in VoidTags
                   THEN <<[k |-> "void", tag |-> n.tag, attrs |-> n.attrs]>>
              ELSE <<[k |-> "open", tag |-> n.tag, attrs |-> n.attrs]>>
                   \o Serialize(n.kids)
                   \o <<[k |-> "close", tag |-> n.tag]>>) \o Serialize(Tail(forest))

\* soup.find(tag): the first element of that name in document order
RECURSIVE FindTag(_, _)
FindTag(forest, tag) ==
    IF forest = <<>> THEN Nothing
    ELSE LET n == Head(forest)
             inside == FindTag(n.kids, tag)
         IN  IF n.k = "el" /\ n.tag = tag THEN n
             ELSE IF n.k = "el" /\ inside # Nothing THEN inside
             ELSE FindTag(Tail(forest), tag)

NotComment(piece) == piece.k # "comment"

\* re.sub(r'<!--.*?-->', '', result, flags=re.DOTALL)
RemoveComments(markup) == SelectSeq(markup, NotComment)

BlankText(piece) == piece.k = "text" /\ piece.stripped = 0

\* the first position from i on that is not whitespace text
RECURSIVE SkipBlank(_, _)
SkipBlank(markup, i) ==
    IF i <= Len(markup) /\ BlankText(markup[i]) THEN SkipBlank(markup, i + 1) ELSE i

\* re.sub(r'<(p|div|span)>\s*</\1>', '', result): one pass from the left
RECURSIVE RemoveEmpty(_, _)
RemoveEmpty(markup, i) ==
    IF i > Len(markup) THEN <<>>
    ELSE LET j == SkipBlank(markup, i + 1)
         IN  IF /\ markup[i].k = "open"
                /\ markup[i].tag \in {"p", "div", "span"}
                /\ DOMAIN markup[i].attrs = {}
                /\ j <= Len(markup)
                /\ markup[j].k = "close"
                /\ markup[j].tag = markup[i].tag
             THEN RemoveEmpty(markup, j + 1)
             ELSE <<markup[i]>> \o RemoveEmpty(markup, i + 1)

PlainBr(piece) == piece.k = "void" /\ piece.tag = "br" /\ DOMAIN piece.attrs = {}

RECURSIVE BrRun(_, _)
BrRun(markup, i) ==
    IF i <= Len(markup) /\ PlainBr(markup[i]) THEN 1 + BrRun(markup, i + 1) ELSE 0

Br == [k |-> "void", tag |-> "br", attrs |-> NoAttrs]

\* re.sub(r'(<br\s*/?>){3,}', '<br><br>', result)
RECURSIVE CollapseBr(_, _)
CollapseBr(markup, i) ==
    IF i > Len(markup) THEN <<>>
    ELSE IF BrRun(markup, i) >= 3 THEN <<Br, Br>> \o CollapseBr(markup, i + BrRun(markup, i))
    ELSE IF BrRun(markup, i) >= 1
         THEN SubSeq(markup, i, i + BrRun(markup, i) - 1)
              \o CollapseBr(markup, i + BrRun(markup, i))
    ELSE <<markup[i]>> \o CollapseBr(markup, i + 1)

\* result.strip()
RECURSIVE StripMarkup(_)
StripMarkup(markup) ==
    IF markup # <<>> /\ BlankText(Head(markup)) THEN StripMarkup(Tail(markup))
    ELSE IF markup # <<>> /\ BlankText(markup[Len(markup)])
         THEN StripMarkup(SubSeq(markup, 1, Len(markup) - 1))
    ELSE markup

\* BeautifulSoup(html, "lxml"): the tree builder puts the nodes of the
\* markup under <html><body>
Soup(html) ==
    IF html = <<>> THEN <<>>
    ELSE <<El("html", NoAttrs, <<El("body", NoAttrs, html)>>)>>

\* html is the forest the tree builder makes of the markup
_sanitize_html(html, base_url) ==
    LET soup == FixAnchors(CleanAttrs(Unwrap(Decompose(Soup(html)))), base_url)
        body == FindTag(soup, "body")
        result == IF body # Nothing THEN Serialize(body.kids) ELSE Serialize(soup)
    IN  StripMarkup(CollapseBr(RemoveEmpty(RemoveComments(result), 1), 1))

LAZY_ATTRS == <<"data-src", "data-original", "data-lazy-src", "data-lazy", "data-actualsrc">>

_PLACEHOLDER_PATTERNS == {"loading", "placeholder", "blank", "spacer", "pixel"}

\* tag.get(name, "")
Get(attrs, name) == IF name \in DOMAIN attrs THEN attrs[name] ELSE <<>>

\* tag[name] = value
SetAttr(attrs, name, value) ==
    [a \in DOMAIN attrs \cup {name} |-> IF a = name THEN value ELSE attrs[a]]

\* del tag[name] for the names that are there
DelAttrs(attrs, names) == [a \in DOMAIN attrs \ names |-> attrs[a]]

_is_placeholder_src(src) ==
    IF src = <<>> THEN TRUE
    ELSE MatchesAny(src, _PLACEHOLDER_PATTERNS) \/ StartsWith(src, "data:")

\* the first LAZY_ATTRS value that starts with "http", "/" or "//"
RECURSIVE RealSrc(_, _)
RealSrc(attrs, i) ==
    IF i > Len(LAZY_ATTRS) THEN <<>>
    ELSE LET val == Get(attrs, LAZY_ATTRS[i])
         IN  IF val # <<>> /\ \E pre \in {"http", "/", "//"} : StartsWith(val, pre)
             THEN val
             ELSE RealSrc(attrs, i + 1)

LazyNames == {LAZY_ATTRS[k] : k \in 1..Len(LAZY_ATTRS)}

\* "//..." gets "https:", another src that does not start with "http" is
\* joined to the base
AbsoluteSrc(src, base_url) ==
    IF StartsWith(src, "//") THEN HttpsOf(src)
    ELSE IF ~StartsWith(src, "http") THEN urljoin(base_url, src)
    ELSE src

\* the img loop body: <<>> when the img is decomposed
ResolveImg(n, base_url) ==
    LET real_src == RealSrc(n.attrs, 1)
        src0 == Get(n.attrs, "src")
        src == IF real_src # <<>> /\ (_is_placeholder_src(src0) \/ src0 = <<>>)
               THEN real_src
               ELSE src0
        set == SetAttr(SetAttr(SetAttr(n.attrs, "src", AbsoluteSrc(src, base_url)),
                               "loading", <<"lazy">>),
                       "referrerpolicy", <<"no-referrer">>)
    IN  IF src = <<>> \/ StartsWith(src, "data:") THEN <<>>
        ELSE <<[n EXCEPT !.attrs = DelAttrs(set, LazyNames \cup {"width", "height", "onclick",
                                                                  "onerror"})]>>

\* the video loop body
ResolveVideo(n, base_url) ==
    LET src0 == Get(n.attrs, "src")
        src == IF src0 # <<>> THEN src0 ELSE RealSrc(n.attrs, 1)
        a1 == IF src # <<>> THEN SetAttr(n.attrs, "src", AbsoluteSrc(src, base_url))
              ELSE n.attrs
        a2 == SetAttr(SetAttr(SetAttr(SetAttr(a1, "controls", <<>>), "playsinline", <<>>),
                              "loading", <<"lazy">>),
                      "referrerpolicy", <<"no-referrer">>)
    IN  [n EXCEPT !.attrs = DelAttrs(a2, LazyNames \cup {"onclick", "onerror"})]

\* the source loop body
ResolveSource(n, base_url) ==
    LET src == Get(n.attrs, "src")
    IN  IF src # <<>> /\ ~StartsWith(src, "http")
        THEN [n EXCEPT !.attrs = SetAttr(n.attrs, "src", AbsoluteSrc(src, base_url))]
        ELSE n

\* _resolve_media on the children of the content element
RECURSIVE ResolveMedia(_, _)
ResolveMedia(forest, base_url) ==
    IF forest = <<>> THEN <<>>
    ELSE LET n == Head(forest)
             kids == ResolveMedia(n.kids, base_url)
         IN  (IF n.k # "el" THEN <<n>>
              ELSE IF n.tag = "img" THEN ResolveImg(n, base_url)
              ELSE IF n.tag = "video" THEN <<[ResolveVideo(n, base_url) EXCEPT !.kids = kids]>>
              ELSE IF n.tag = "source" THEN <<[ResolveSource(n, base_url) EXCEPT !.kids = kids]>>
              ELSE <<[n EXCEPT !.kids = kids]>>) \o ResolveMedia(Tail(forest), base_url)

\* the content element after _resolve_media(soup_element, base_url)
_resolve_media(soup_element, base_url) ==
    [soup_element EXCEPT !.kids = ResolveMedia(soup_element.kids, base_url)]

SITE_CONTENT_SELECTORS ==
    [humoruniv |-> <<"#cnts", "#wrap_img">>,
     ruliweb |-> <<"div.view_content", "div.board_main_view">>,
     etoland |-> <<"div#view_content", "td.mw_basic_view_content">>,
     inven |-> <<"div#powerbbsContent", "div.contentBody">>,
     clien |-> <<"div.post_article", "div.post_view">>,
     mlbpark |-> <<"div#contentDetail", "div.ar_txt">>,
     ddanzi |-> <<"div.xe_content", "div.read_content">>,
     bobaedream |-> <<"div.bodyCont", "div.content02">>,
     ppomppu |-> <<"td.board-contents">>,
     fmkorea |-> <<"div.xe_content", "article">>,
     dcinside |-> <<"div.write_div", "div.writing_view_box">>,
     damoang |-> <<"div.fr-view", "div.view_content">>,
     dogdrip |-> <<"div.xe_content">>,
     theqoo |-> <<"div.xe_content">>,
     82cook |-> <<"div.view_content", "div.post_content">>]

\* the selectors in the order SITE_CONTENT_SELECTORS.values() gives them
AllContentSelectors ==
    Flatten(<<SITE_CONTENT_SELECTORS.humoruniv, SITE_CONTENT_SELECTORS.ruliweb,
              SITE_CONTENT_SELECTORS.etoland, SITE_CONTENT_SELECTORS.inven,
              SITE_CONTENT_SELECTORS.clien, SITE_CONTENT_SELECTORS.mlbpark,
              SITE_CONTENT_SELECTORS.ddanzi, SITE_CONTENT_SELECTORS.bobaedream,
              SITE_CONTENT_SELECTORS.ppomppu, SITE_CONTENT_SELECTORS.fmkorea,
              SITE_CONTENT_SELECTORS.dcinside, SITE_CONTENT_SELECTORS.damoang,
              SITE_CONTENT_SELECTORS.dogdrip, SITE_CONTENT_SELECTORS.theqoo,
              SITE_CONTENT_SELECTORS["82cook"]>>)

MAX_CONTENT_SIZE == 500000
MAX_IMAGES == 50

\* len(element.get_text(strip=True))
RECURSIVE TextLen(_)
TextLen(forest) ==
    IF forest = <<>> THEN 0
    ELSE LET n == Head(forest)
         IN  (IF n.k = "text" THEN n.stripped
              ELSE IF n.k = "el" THEN TextLen(n.kids)
              ELSE 0) + TextLen(Tail(forest))

\* the number of strings get_text(strip=True) joins
RECURSIVE TextCount(_)
TextCount(forest) ==
    IF forest = <<>> THEN 0
    ELSE LET n == Head(forest)
         IN  (IF n.k = "text" /\ n.stripped > 0 THEN 1
              ELSE IF n.k = "el" THEN TextCount(n.kids)
              ELSE 0) + TextCount(Tail(forest))

\* len(element.find_all("img")) + len(element.find_all("video"))
RECURSIVE MediaCount(_)
MediaCount(forest) ==
    IF forest = <<>> THEN 0
    ELSE LET n == Head(forest)
         IN  (IF n.k = "el"
              THEN (IF n.tag \in {"img", "video"} THEN 1 ELSE 0) + MediaCount(n.kids)
              ELSE 0) + MediaCount(Tail(forest))

_has_content(element, min_text) ==
    IF TextLen(element.kids) > min_text THEN TRUE ELSE MediaCount(element.kids) > 0

\* the first of the selectors whose element has content; Nothing if none
RECURSIVE FirstWithContent(_, _, _, _)
FirstWithContent(soup, selectors, i, min_text) ==
    IF i > Len(selectors) THEN Nothing
    ELSE LET el == select_one(soup, selectors[i])
         IN  IF el # Nothing /\ _has_content(el, min_text) THEN el
             ELSE FirstWithContent(soup, selectors, i + 1, min_text)

\* the characters of a piece of markup; a tag is counted in its shortest
\* form, three characters
PieceLen(piece) == IF piece.k = "text" THEN piece.len ELSE 3

\* markup[:n]
RECURSIVE Truncate(_, _)
Truncate(markup, n) ==
    IF markup = <<>> \/ n = 0 THEN <<>>
    ELSE LET piece == Head(markup)
         IN  IF PieceLen(piece) <= n
             THEN <<piece>> \o Truncate(Tail(markup), n - PieceLen(piece))
             ELSE IF piece.k = "text"
                  THEN <<TextNode(n, IF piece.stripped < n THEN piece.stripped ELSE n)>>
             ELSE <<[k |-> "cut", len |-> n]>>

RECURSIVE MarkupLen(_)
MarkupLen(markup) ==
    IF markup = <<>> THEN 0 ELSE PieceLen(Head(markup)) + MarkupLen(Tail(markup))

\* _extract_image_urls: the src of each <img src> that starts with "http"
RECURSIVE _extract_image_urls(_)
_extract_image_urls(markup) ==
    IF markup = <<>> THEN <<>>
    ELSE LET piece == Head(markup)
         IN  (IF /\ piece.k = "void"
                 /\ piece.tag = "img"
                 /\ "src" \in DOMAIN piece.attrs
                 /\ piece.attrs["src"] # <<>>
                 /\ StartsWith(piece.attrs["src"], "http")
              THEN <<piece.attrs["src"]>>
              ELSE <<>>) \o _extract_image_urls(Tail(markup))

\* the length of get_text("\n", strip=True)
JoinedTextLen(forest) ==
    IF TextCount(forest) = 0 THEN 0 ELSE TextLen(forest) + TextCount(forest) - 1

Min(a, b) == IF a < b THEN a ELSE b

ExtractedContent(sanitized, text_len, url) ==
    [html_content |-> Truncate(sanitized, MAX_CONTENT_SIZE),
     text_len |-> Min(text_len, MAX_CONTENT_SIZE),
     images |-> Limit(_extract_image_urls(sanitized), MAX_IMAGES),
     source_url |-> url]

\* the two selector passes the other way round: every known selector
\* first, the given site's selectors after them
ContentElementGenericFirst(soup, site) ==
    LET any == FirstWithContent(soup, AllContentSelectors, 1, 50)
    IN  IF any # Nothing THEN any
        ELSE IF site # None /\ site \in DOMAIN SITE_CONTENT_SELECTORS
        THEN FirstWithContent(soup, SITE_CONTENT_SELECTORS[site], 1, 10)
        ELSE Nothing

\* the content element extract_content settles on, Nothing if no selector
\* gives one
ContentElement(soup, site) ==
    LET own == IF site # None /\ site \in DOMAIN SITE_CONTENT_SELECTORS
               THEN FirstWithContent(soup, SITE_CONTENT_SELECTORS[site], 1, 10)
               ELSE Nothing
    IN  IF own # Nothing THEN own
        ELSE FirstWithContent(soup, AllContentSelectors, 1, 50)

\* an extractor that falls back on the page's og:image when the selectors
\* and the generic extraction give nothing
extract_content_og_fallback(soup, traf, url, site) ==
    LET content_element == ContentElement(soup, site)
        resolved == _resolve_media(content_element, url)
    IN  IF content_element = Nothing /\ traf # Nothing /\ traf.html # Nothing /\ traf.html.v # <<>>
        THEN ExtractedContent(_sanitize_html(traf.html.v, url), traf.text_len, url)
        ELSE IF content_element = Nothing /\ OgImage(soup) # Nothing
        THEN [ExtractedContent(<<>>, 0, url) EXCEPT !.images = <<OgImage(soup).v>>]
        ELSE IF content_element = Nothing THEN Nothing
        ELSE ExtractedContent(_sanitize_html(<<resolved>>, url),
                              JoinedTextLen(resolved.kids), url)

\* extract_content once fetch_html has given the page: soup holds what the
\* selectors find; traf is Nothing when the trafilatura module is missing,
\* else what its two extract calls return, [html, text_len], html being
\* Nothing when it extracts nothing
extract_content(soup, traf, url, site) ==
    LET content_element == ContentElement(soup, site)
        resolved == _resolve_media(content_element, url)
    IN  IF content_element = Nothing /\ traf # Nothing /\ traf.html # Nothing /\ traf.html.v # <<>>
        THEN ExtractedContent(_sanitize_html(traf.html.v, url), traf.text_len, url)
        ELSE IF content_element = Nothing THEN Nothing
        ELSE ExtractedContent(_sanitize_html(<<resolved>>, url),
                              JoinedTextLen(resolved.kids), url)

\* the extractor's inputs
MaxKids == 2
MaxContentNodes == 1

JsPlain == <<"javascript:", "alert(1)">>
JsUpper == <<"JaVaScript:", "alert(1)">>
JsBlank == <<" ", "javascript:", "alert(1)">>
JsTab == <<"java\tscript:", "alert(1)">>
LinkAbs == <<"https://", "example.org", "/", "a.html">>
LinkRel == <<"a.html">>
LinkFragment == <<"#", "top">>
LinkMail == <<"mailto:", "a@example.org">>

ExtractBase == <<"https://", "web.humoruniv.com", "/board/humor/", "read.html?number=1">>

Attr(name, value) == [a \in {name} |-> value]

\* attrs and more: the attributes of both
Attrs2(attrs, more) ==
    [a \in DOMAIN attrs \cup DOMAIN more |-> IF a \in DOMAIN more THEN more[a] ELSE attrs[a]]

OnClick == Attr("onclick", <<"alert(1)">>)

SanLeaves ==
    {TextNode(5, 5), TextNode(1, 0), Comment, El("br", NoAttrs, <<>>),
     El("img", Attrs2(Attr("src", ImgGood), Attr("onerror", <<"alert(1)">>)), <<>>)}

\* the tags with children, with the attributes they come with
SanTagAttrs ==
    {<<"a", Attr("href", h)>> :
        h \in {<<>>, JsPlain, JsUpper, JsBlank, JsTab, LinkAbs, LinkRel, LinkFragment, LinkMail}}
    \cup {<<"a", Attrs2(Attr("href", LinkAbs), OnClick)>>, <<"a", NoAttrs>>,
          <<"div", NoAttrs>>,
          <<"div", Attr("style", <<"color: red", "position: fixed", "width: expression(1)">>)>>,
          <<"div", Attr("style", <<"background-color: url(x)", "junk">>)>>,
          <<"div", Attrs2(OnClick, Attr("class", <<"c">>))>>,
          <<"p", NoAttrs>>, <<"span", NoAttrs>>, <<"span", Attr("style", <<"COLOR:red">>)>>,
          <<"font", NoAttrs>>, <<"center", OnClick>>,
          <<"script", NoAttrs>>, <<"iframe", Attr("src", JsPlain)>>, <<"style", NoAttrs>>,
          <<"noscript", NoAttrs>>, <<"object", NoAttrs>>,
          <<"form", Attr("onsubmit", <<"alert(1)">>)>>,
          <<"b", Attr("onmouseover", <<"alert(1)">>)>>,
          <<"video", Attrs2(Attr("poster", JsPlain), Attr("onplay", <<"alert(1)">>))>>}

BrNode == El("br", NoAttrs, <<>>)

\* line-break runs, as the last regular expression looks for them
BrKids ==
    {<<BrNode, BrNode>>, <<BrNode, BrNode, BrNode>>, <<BrNode, BrNode, BrNode, BrNode>>,
     <<BrNode, Comment, BrNode, BrNode>>, <<BrNode, El("p", NoAttrs, <<>>), BrNode, BrNode>>,
     <<BrNode, BrNode, TextNode(5, 5), BrNode>>}

SanNodes ==
    SanLeaves
    \cup {El(ta[1], ta[2], kids) : ta \in SanTagAttrs, kids \in SeqsUpTo(SanLeaves, MaxKids)}
    \cup {El("div", NoAttrs, kids) : kids \in BrKids}

\* a script element next to the node, with text of its own
RiskSibling == El("script", NoAttrs, <<TextNode(7, 7)>>)

SanWrappers ==
    {<<"font", NoAttrs>>, <<"a", Attr("href", JsPlain)>>, <<"noscript", NoAttrs>>}

SanHtmls ==
    {<<n>> : n \in SanNodes}
    \cup UNION {{<<El(w[1], w[2], <<n>>)>> :
                    n \in {m \in SanNodes : w[1] = "a" => (m.k # "el" \/ m.tag # "a")}} :
                 w \in SanWrappers}
    \cup {<<El("font", NoAttrs, <<n, RiskSibling>>)>> : n \in SanNodes}

SanInputs ==
    {[fn |-> "sanitize", html |-> html, base_url |-> base] :
        html \in SanHtmls, base \in {<<>>, ExtractBase}}

ImgPlaceholder == <<"https://", "cdn.example/", "loading", ".gif">>

\* what a content element holds
ExtractNodes ==
    {El("img", attrs, <<>>) :
        attrs \in {Attr("src", ImgGood), Attr("src", ImgRel), Attr("src", ImgProtoRel),
                   Attr("src", ImgData), Attr("src", JsPlain), Attr("src", JsTab),
                   Attrs2(Attr("src", ImgPlaceholder), Attr("data-src", ImgGood)),
                   Attrs2(Attr("src", ImgPlaceholder), Attr("data-src", ImgRel)),
                   Attrs2(Attr("src", ImgData), Attr("data-actualsrc", ImgProtoRel)),
                   Attr("data-original", ImgRootRel),
                   Attr("alt", <<"x">>),
                   Attrs2(Attrs2(Attr("src", ImgGood), Attr("onerror", <<"alert(1)">>)),
                          Attr("width", <<"1", "0">>))}}
    \cup {El("video", attrs, <<>>) :
            attrs \in {Attr("src", ImgGood), Attr("src", JsPlain), Attr("poster", JsPlain),
                       Attr("poster", ImgData), Attr("data-src", ImgGood),
                       Attrs2(Attr("src", ImgRel), OnClick)}}
    \cup {El("video", NoAttrs, <<El("source", Attr("src", src), <<>>)>>) :
            src \in {ImgRel, ImgProtoRel, JsPlain}}
    \cup {El("a", Attr("href", h), <<TextNode(20, 20)>>) :
            h \in {JsPlain, JsTab, JsBlank, LinkRel, LinkAbs}}
    \cup {TextNode(5, 5), TextNode(20, 20), TextNode(60, 60), TextNode(500001, 500001),
          El("script", NoAttrs, <<TextNode(60, 60)>>)}

ExtractEls ==
    {El("div", Attr("id", <<"cnts">>), kids) : kids \in SeqsUpTo(ExtractNodes, MaxContentNodes)}

\* what the site's second selector and another site's selector find
SecondEl == El("div", Attr("id", <<"wrap_img">>), <<El("img", Attr("src", ImgGood), <<>>)>>)
ForeignEl == El("div", Attr("class", <<"view_content">>), <<TextNode(60, 60)>>)

\* the documents with these elements under the selectors that find them
SoupOf(cnts, second, foreign) ==
    [els |-> [sel \in (IF cnts = Nothing THEN {} ELSE {"#cnts"})
                      \cup (IF second THEN {"#wrap_img"} ELSE {})
                      \cup (IF foreign THEN {"div.view_content"} ELSE {}) |->
                 IF sel = "#cnts" THEN cnts
                 ELSE IF sel = "#wrap_img" THEN SecondEl
                 ELSE ForeignEl],
     og |-> Nothing]

\* a page no selector matches, with <meta property="og:image" content=...>
OgOnlySoup == [SoupOf(Nothing, FALSE, FALSE) EXCEPT !.og = Some(ImgGood)]

ExtractSoups ==
    {SoupOf(cnts, second, foreign) :
        cnts \in {Nothing} \cup ExtractEls, second \in BOOLEAN, foreign \in BOOLEAN}
    \cup {OgOnlySoup}

\* the bytes a character of the page's text takes in UTF-8: 1 on a page of
\* ASCII text, 3 on a page of Hangul text
CharBytes == {1, 3}

\* trafilatura: not installed, nothing extracted, or markup of its own
ExtractTrafs ==
    {Nothing,
     [html |-> Nothing, text_len |-> 0],
     [html |-> Some(<<El("p", NoAttrs, <<El("a", Attr("href", JsTab), <<TextNode(20, 20)>>)>>)>>),
      text_len |-> 20]}

ExtractInputs ==
    {[fn |-> "extract", soup |-> soup, traf |-> traf, url |-> ExtractBase, site |-> site,
      char_bytes |-> b] :
        soup \in ExtractSoups, traf \in ExtractTrafs, site \in {"humoruniv", "unlisted", None},
        b \in CharBytes}

ExtractInit ==
    /\ xIn \in SanInputs \cup ExtractInputs
    /\ xPc = xIn.fn
    /\ xSan = <<>>
    /\ xOut = Nothing

ExtractIdle ==
    /\ xPc = "off"
    /\ xIn = Nothing
    /\ xSan = <<>>
    /\ xOut = Nothing

\* a call of _sanitize_html(html, base_url)
Sanitize ==
    /\ xPc = "sanitize"
    /\ xSan' = _sanitize_html(xIn.html, xIn.base_url)
    /\ xPc' = "ret"
    /\ UNCHANGED <<xIn, xOut, notExtract>>

\* extract_content(url, site) when fetch_html gives the page
Extract ==
    /\ xPc = "extract"
    /\ xOut' = extract_content(xIn.soup, xIn.traf, xIn.url, xIn.site)
    /\ xPc' = "ret"
    /\ UNCHANGED <<xIn, xSan, notExtract>>

\* extract_content(url, site) when fetch_html gives None
ExtractNoHtml ==
    /\ xPc = "extract"
    /\ xOut' = Nothing
    /\ xPc' = "failed"
    /\ UNCHANGED <<xIn, xSan, notExtract>>

ExtractNext == Sanitize \/ Extract \/ ExtractNoHtml

\* the markup the call gave out: the return value of _sanitize_html, or the
\* html_content of the ExtractedContent
OutMarkup ==
    IF xPc # "ret" THEN <<>>
    ELSE IF xIn.fn = "sanitize" THEN xSan
    ELSE IF xOut = Nothing THEN <<>>
    ELSE xOut.html_content

\* the tags of the markup, each with its attributes
OutTags == {OutMarkup[k] : k \in {j \in 1..Len(OutMarkup) : OutMarkup[j].k \in {"open", "void"}}}

OnNames == {"onclick", "onerror", "onsubmit", "onmouseover", "onplay", "onload"}

\* C3: the sanitizer's output holds no <script>, no <iframe>, no attribute
\* whose name starts with "on" and no anchor whose href is a javascript: URL
C3_NoActiveMarkup ==
    \A t \in OutTags :
        /\ t.tag \notin {"script", "iframe"}
        /\ DOMAIN t.attrs \cap OnNames = {}
        /\ (t.tag = "a" /\ "href" \in DOMAIN t.attrs) => ~IsScheme(t.attrs["href"], "javascript:")

\* the texts that are not blank and the images, in document order, outside
\* the elements of the risk tags
RECURSIVE KeptLeaves(_)
KeptLeaves(forest) ==
    IF forest = <<>> THEN <<>>
    ELSE LET n == Head(forest)
         IN  (IF n.k = "text" THEN (IF n.stripped > 0 THEN <<n>> ELSE <<>>)
              ELSE IF n.k # "el" \/ n.tag \in RiskTags THEN <<>>
              ELSE IF n.tag = "img" THEN <<[k |-> "img"]>>
              ELSE KeptLeaves(n.kids)) \o KeptLeaves(Tail(forest))

\* the same leaves of serialized markup
RECURSIVE MarkupLeaves(_)
MarkupLeaves(markup) ==
    IF markup = <<>> THEN <<>>
    ELSE LET piece == Head(markup)
         IN  (IF piece.k = "text" THEN (IF piece.stripped > 0 THEN <<piece>> ELSE <<>>)
              ELSE IF piece.k = "void" /\ piece.tag = "img" THEN <<[k |-> "img"]>>
              ELSE <<>>) \o MarkupLeaves(Tail(markup))

\* C4: every tag left in the sanitizer's output is in ALLOWED_TAGS and has
\* only attributes of its own or the global allow-list; what is inside a risk
\* tag is gone, and what is inside any other tag is kept, whether the tag
\* itself is kept or unwrapped
C4_AllowListAndUnwrap ==
    /\ \A t \in OutTags :
          /\ t.tag \in ALLOWED_TAGS
          /\ DOMAIN t.attrs \subseteq ALLOWED_ATTRS(t.tag)
    /\ (xPc = "ret" /\ xIn.fn = "sanitize") => MarkupLeaves(xSan) = KeptLeaves(xIn.html)

\* a tag that is not allowed around an image with an onerror attribute and
\* a script: the image is left, with its src alone
C4_Witness ==
    /\ xPc = "ret"
    /\ xIn.fn = "sanitize"
    /\ xIn.html = <<El("font", NoAttrs,
                       <<El("img", Attrs2(Attr("src", ImgGood), Attr("onerror", <<"alert(1)">>)),
                            <<>>),
                         RiskSibling>>)>>
    /\ xSan = <<[k |-> "void", tag |-> "img", attrs |-> Attr("src", ImgGood)]>>

\* the attributes of a tag that carry a URL
UrlAttrs(tag) ==
    CASE tag = "a" -> {"href"}
      [] tag = "img" -> {"src"}
      [] tag = "video" -> {"src", "poster"}
      [] tag = "source" -> {"src"}
      [] OTHER -> {}

\* C5: no URL attribute (a href, img src, video src, video poster, source
\* src) of the html_content extract_content returns has a javascript: URL
C5_NoExecutableUrl ==
    (xPc = "ret" /\ xIn.fn = "extract") =>
        \A t \in OutTags :
            \A a \in UrlAttrs(t.tag) \cap DOMAIN t.attrs : ~IsScheme(t.attrs[a], "javascript:")

\* the positions of the selectors that find an element with content
Hits(soup, selectors, min_text) ==
    {i \in 1..Len(selectors) :
        /\ select_one(soup, selectors[i]) # Nothing
        /\ _has_content(select_one(soup, selectors[i]), min_text)}

Least(S) == CHOOSE i \in S : \A j \in S : i <= j

\* what extract_content makes of the element a selector found
FromElement(el, url) ==
    ExtractedContent(_sanitize_html(<<_resolve_media(el, url)>>, url),
                     JoinedTextLen(_resolve_media(el, url).kids), url)

C14_OgImageFallback ==
    (/\ xPc = "ret"
     /\ xIn.fn = "extract"
     /\ DOMAIN xIn.soup.els = {}
     /\ OgImage(xIn.soup) # Nothing) =>
        /\ xOut # Nothing
        /\ xOut.images = <<OgImage(xIn.soup).v>>

\* C14 as amended: when no body-container selector matches the page,
\* extract_content does not use its og:image meta tag: it returns what the
\* generic extraction gives, and None when that extracts nothing.
C14_NoOgImageFallback ==
    (/\ xPc = "ret"
     /\ xIn.fn = "extract"
     /\ DOMAIN xIn.soup.els = {}
     /\ OgImage(xIn.soup) # Nothing) =>
        IF xIn.traf # Nothing /\ xIn.traf.html # Nothing /\ xIn.traf.html.v # <<>>
        THEN /\ xOut # Nothing
             /\ xOut.images = _extract_image_urls(xOut.html_content)
             /\ xOut.text_len = xIn.traf.text_len
        ELSE xOut = Nothing

\* a page with a valid og:image and nothing else: None comes back
C14_Witness ==
    /\ xPc = "ret"
    /\ xIn.fn = "extract"
    /\ xIn.soup = OgOnlySoup
    /\ xIn.traf = Nothing
    /\ xOut = Nothing

\* the size of markup in UTF-8: a tag is ASCII, a text has char_bytes bytes
\* for each of its characters
RECURSIVE ByteLen(_, _)
ByteLen(markup, char_bytes) ==
    IF markup = <<>> THEN 0
    ELSE (IF Head(markup).k = "text" THEN char_bytes * Head(markup).len
          ELSE PieceLen(Head(markup))) + ByteLen(Tail(markup), char_bytes)

\* C19: every ExtractedContent has html_content and text_content of at most
\* MAX_CONTENT_SIZE bytes each and at most MAX_IMAGES image URLs.
C19_SizeCaps ==
    (xPc = "ret" /\ xIn.fn = "extract" /\ xOut # Nothing) =>
        /\ ByteLen(xOut.html_content, xIn.char_bytes) <= MAX_CONTENT_SIZE
        /\ xIn.char_bytes * xOut.text_len <= MAX_CONTENT_SIZE
        /\ Len(xOut.images) <= MAX_IMAGES

(***************************************************************************)
(* crawl_all: one _crawl_site task per source, gathered.                   *)
(*                                                                         *)
(* A task is [st |-> "running"] until its coroutine ends.  Then it holds   *)
(* how the coroutine ended, the posts the source's crawl gave (parsed) and *)
(* the task's result (value): the list _crawl_site returned, or the        *)
(* exception that left it.                                                 *)
(***************************************************************************)
\* the names of SITES, in order
SITES ==
    <<"fmkorea", "humoruniv", "ruliweb", "etoland", "inven", "clien", "mlbpark", "ddanzi",
      "bobaedream", "ppomppu", "slrclub">>

\* the sources _crawl_site hands to a crawl_<site> driver of their own
DriverSites == {"damoang", "bobaedream", "fmkorea", "humoruniv", "ddanzi", "ppomppu"}

\* the sources of the model: the first MaxSites of SITES
MaxSites == 3

Sites == SubSeq(SITES, 1, MaxSites)

\* posts[:30]
CollectCap == 30

\* datetime.now().isoformat()
isoformat(now) == <<"T", now>>

\* the k-th post a source's crawl gives
CrawledPost(site, k) ==
    [site |-> site, url |-> <<"https://", site, "/", k>>,
     views |-> IF k = 2 THEN Some(5000) ELSE Nothing,
     thumbnail |-> IF k = 1 THEN Some(ImgGood) ELSE Nothing, collected_at |-> Nothing]

\* how many posts a crawl may give
PostCounts == {0, 1, 2, CollectCap + 1}

CrawledPosts(site, n) == [k \in 1..n |-> CrawledPost(site, k)]

\* Post.to_dict(): collected_at is filled in when the post has none
to_dict(post, now) ==
    [post EXCEPT !.collected_at = IF post.collected_at # Nothing THEN post.collected_at
                                  ELSE Some(isoformat(now))]

Exception == [kind |-> "exception"]

\* at: the time the coroutine ended, 0 while it runs
Running == [st |-> "running", how |-> "", parsed |-> <<>>, value |-> Nothing, at |-> 0]

\* the end of a _crawl_site coroutine
\*   "ok"            the crawl or the parser gave posts
\*   "fetch_failed"  fetch_html gave None
\*   "error"         the try block raised
\*   "raised"        an exception left the coroutine
\* a _crawl_site that returns every post of the source
_crawl_site_uncapped(how, posts, now) ==
    CASE how = "ok" -> Some([k \in 1..Len(posts) |-> to_dict(posts[k], now)])
      [] how \in {"fetch_failed", "error"} -> Some(<<>>)
      [] how = "raised" -> Exception

_crawl_site(how, posts, now) ==
    CASE how = "ok" ->
            LET collected == Limit(posts, CollectCap)
            IN  Some([k \in 1..Len(collected) |-> to_dict(collected[k], now)])
      [] how \in {"fetch_failed", "error"} -> Some(<<>>)
      [] how = "raised" -> Exception

\* asyncio.gather(*tasks, return_exceptions=...): the results in the order
\* of the tasks, or the first exception when exceptions are not returned
\* a gather that gives the results in the order the tasks ended
gather_as_completed(tasks, return_exceptions) ==
    LET raisers == {i \in 1..Len(tasks) : tasks[i].value = Exception}
        Rank(i) == Cardinality({j \in 1..Len(tasks) : tasks[j].at <= tasks[i].at})
    IN  IF ~return_exceptions /\ raisers # {}
        THEN [raised |-> TRUE, results |-> <<>>]
        ELSE [raised |-> FALSE,
              results |-> [r \in 1..Len(tasks) |->
                              tasks[CHOOSE i \in 1..Len(tasks) : Rank(i) = r].value]]

gather(tasks, return_exceptions) ==
    LET raisers == {i \in 1..Len(tasks) : tasks[i].value = Exception}
    IN  IF ~return_exceptions /\ raisers # {}
        THEN [raised |-> TRUE, results |-> <<>>]
        ELSE [raised |-> FALSE, results |-> [i \in 1..Len(tasks) |-> tasks[i].value]]

\* site_results = await asyncio.gather(*tasks) without return_exceptions
SiteResultsPropagate(tasks) == gather(tasks, FALSE)

\* site_results = await asyncio.gather(*tasks, return_exceptions=True)
SiteResults(tasks) == gather(tasks, TRUE)

\* the loop over site_results: lists are appended, exceptions are skipped
RECURSIVE ExtendAll(_)
ExtendAll(site_results) ==
    IF site_results = <<>> THEN <<>>
    ELSE LET res == Head(site_results)
         IN  (IF res = Exception THEN <<>> ELSE res.v) \o ExtendAll(Tail(site_results))

CrawlInit ==
    /\ cPc = "gather"
    /\ cTask = [i \in 1..Len(Sites) |-> Running]
    /\ cNow = 1
    /\ cResults = <<>>

CrawlIdle ==
    /\ cPc = "off"
    /\ cTask = <<>>
    /\ cNow = 0
    /\ cResults = <<>>

\* the coroutine of source i ends
Ends(i, how, posts) ==
    /\ cPc = "gather"
    /\ cTask[i].st = "running"
    /\ cTask' = [cTask EXCEPT ![i] = [st |-> "done", how |-> how, parsed |-> posts,
                                      value |-> _crawl_site(how, posts, cNow),
                                      at |-> cNow]]
    /\ cNow' = cNow + 1
    /\ UNCHANGED <<cPc, cResults, notCrawl>>

\* the source's driver, or fetch_html and the parser, give posts
SiteCrawled(i) == \E n \in PostCounts : Ends(i, "ok", CrawledPosts(Sites[i], n))

\* fetch_html gives None: timeout, retries exhausted
SiteFetchFailed(i) == Sites[i] \notin DriverSites /\ Ends(i, "fetch_failed", <<>>)

\* the driver or the parser raises
SiteError(i) == Ends(i, "error", <<>>)

\* an exception leaves the coroutine
SiteRaised(i) == Ends(i, "raised", <<>>)

\* every task has ended: gather gives site_results and crawl_all returns
CrawlReturn ==
    /\ cPc = "gather"
    /\ \A i \in 1..Len(cTask) : cTask[i].st = "done"
    /\ LET site_results == SiteResults(cTask)
       IN  IF site_results.raised
           THEN cPc' = "raised" /\ cResults' = <<>>
           ELSE cPc' = "ret" /\ cResults' = ExtendAll(site_results.results)
    /\ UNCHANGED <<cTask, cNow, notCrawl>>

CrawlNext ==
    \/ \E i \in 1..Len(Sites) :
          SiteCrawled(i) \/ SiteFetchFailed(i) \/ SiteError(i) \/ SiteRaised(i)
    \/ CrawlReturn

\* a record of the result without what to_dict added
AsCrawled(d) == [d EXCEPT !.collected_at = Nothing]

\* what the sources that did not fail collected, in SITES order
CollectedOf(tasks) ==
    Flatten([i \in 1..Len(tasks) |->
                IF tasks[i].how = "ok" THEN Limit(tasks[i].parsed, CollectCap) ELSE <<>>])

\* C1: crawl_all never raises; the sources that failed contribute nothing
\* and the result holds every record each other source collected
C1_FailureIsolated ==
    /\ cPc # "raised"
    /\ cPc = "ret" =>
          [k \in 1..Len(cResults) |-> AsCrawled(cResults[k])] = CollectedOf(cTask)

\* crawl_all has returned records although one source's fetch failed,
\* another's driver raised and a third's coroutine ended with an exception
C1_Witness ==
    /\ cPc = "ret"
    /\ cResults # <<>>
    /\ \E i \in 1..Len(cTask) : cTask[i].how \in {"fetch_failed", "raised"}
    /\ \E i \in 1..Len(cTask) : cTask[i].how = "error"
    /\ \E i \in 1..Len(cTask) : cTask[i].how = "ok" /\ cTask[i].parsed # <<>>

\* what a task that has ended contributes: the list its coroutine returned
Contribution(task) == IF task.value = Exception THEN <<>> ELSE task.value.v

\* C23: whatever the order in which the tasks end, crawl_all returns the
\* contributions of the sources concatenated in SITES order; there is one
\* task for each source of SITES, and a task contributes records of its own
\* source only.
C23_CompletionOrderIndependent ==
    /\ Len(cTask) = Len(Sites)
    /\ cPc = "ret" =>
          /\ cResults = Flatten([i \in 1..Len(Sites) |-> Contribution(cTask[i])])
          /\ \A i \in 1..Len(Sites) :
                \A k \in 1..Len(Contribution(cTask[i])) :
                    Contribution(cTask[i])[k].site = Sites[i]

\* the tasks ended in the reverse of SITES order, each with records, and
\* the result starts with the records of the first source
C23_Witness ==
    /\ cPc = "ret"
    /\ \A i \in 1..Len(cTask) : Contribution(cTask[i]) # <<>>
    /\ \A i \in 1..(Len(cTask) - 1) : cTask[i].at > cTask[i + 1].at
    /\ cResults[1].site = Sites[1]
    /\ cResults[Len(cResults)].site = Sites[Len(Sites)]

\* the records of one source in a list, in the order of the list
OfSource(results, site) ==
    LET Is(d) == d.site = site
    IN  SelectSeq(results, Is)

MaxRuns == 3

Corrupt == [kind |-> "corrupt"]

EmptyDict == [obj |-> "empty", r |-> 0]
RunData(r) == [obj |-> "run", r |-> r]
LoadedDict == [obj |-> "file", r |-> 0]

\* what crawl_all may return at time now
CrawlResults(now) ==
    {<<>>,
     <<to_dict(CrawledPost("fmkorea", 1), now), to_dict(CrawledPost("fmkorea", 2), now),
       to_dict(CrawledPost("humoruniv", 2), now)>>}

\* list(set(post["site"] for post in results))
SitesOf(posts) == {posts[k].site : k \in 1..Len(posts)}

\* the dict save_to_json dumps and the dict a run builds
Snapshot(results, now) ==
    [metadata |-> [total_posts |-> Len(results), collected_at |-> isoformat(now),
                   sites |-> SitesOf(results)],
     posts |-> results]

\* a file an earlier process left
OldFile == Snapshot(<<to_dict(CrawledPost("ruliweb", 1), 0)>>, 0)

\* [p for p in posts if not p.get("thumbnail")], those with a site and a url
NoThumb(posts) == {k \in 1..Len(posts) : posts[k].thumbnail = Nothing}

\* _process_site takes the posts of one site in order
NextOfSite(posts, todo) ==
    {k \in todo : \A j \in todo : posts[j].site = posts[k].site => k <= j}

\* await _fill_thumbnails_for(new_data) has returned
FillDetached(run) == TRUE

FillAwaited(run) == run.todo = {}

\* the object CACHED_DATA refers to
Cached ==
    CASE kCache.obj = "run" -> kRuns[kCache.r].data
      [] kCache.obj = "file" -> kLoaded
      [] OTHER -> Nothing

\* CACHED_DATA.get("posts", []) if CACHED_DATA else []
CachedPosts == IF Cached = Nothing THEN <<>> ELSE Cached.posts

CacheInit ==
    /\ kPhase = "startup"
    /\ kRuns = <<[kind |-> "initialize", pc |-> "crawling", data |-> Nothing, todo |-> {}]>>
    /\ kCache = EmptyDict
    /\ kLoaded = Nothing
    /\ kTimestamp = <<>>
    /\ kFile \in {Nothing, OldFile, Corrupt}
    /\ kNow = 1
    /\ kSeen = Nothing
    /\ kPublished = <<Nothing>>

CacheIdle ==
    /\ kPhase = "off"
    /\ kRuns = <<>>
    /\ kCache = EmptyDict
    /\ kLoaded = Nothing
    /\ kTimestamp = <<>>
    /\ kFile = Nothing
    /\ kNow = 0
    /\ kSeen = Nothing
    /\ kPublished = <<>>

\* CACHED_DATA = new_data; CACHE_TIMESTAMP = new_data["metadata"]["collected_at"]
Replace(r, data) ==
    /\ kCache' = RunData(r)
    /\ kTimestamp' = data.metadata.collected_at
    /\ kPublished' = [kPublished EXCEPT ![r] = Some(data.posts)]
    /\ kPhase' = "serving"

\* _crawl_and_fill_thumbnails up to the first await of the backfill that
\* suspends: crawl_all has returned, the file is written, new_data is built;
\* when no post lacks a thumbnail the backfill returns at once and the
\* caller replaces the cache
RunCrawled(r) ==
    /\ kRuns[r].kind \in {"initialize", "periodic"}
    /\ kRuns[r].pc = "crawling"
    /\ \E results \in CrawlResults(kNow) :
          LET data == Snapshot(results, kNow + 2)
              run == [kRuns[r] EXCEPT !.data = data, !.todo = NoThumb(results)]
          IN  /\ kFile' = Snapshot(results, kNow + 1)
              /\ IF NoThumb(results) = {}
                 THEN /\ kRuns' = [kRuns EXCEPT ![r] = [run EXCEPT !.pc = "done"]]
                      /\ Replace(r, data)
                 ELSE /\ kRuns' = [kRuns EXCEPT ![r] = [run EXCEPT !.pc = "filling"]]
                      /\ UNCHANGED <<kCache, kTimestamp, kPublished, kPhase>>
    /\ kNow' = kNow + 3
    /\ kSeen' = Nothing
    /\ UNCHANGED <<kLoaded, notCache>>

\* _process_site: extract_thumbnail_from_page for the next post of a site
\* gives a thumbnail, or gives None or raises
FillThumbnail(r) ==
    /\ kRuns[r].todo # {}
    /\ \E k \in NextOfSite(kRuns[r].data.posts, kRuns[r].todo), found \in BOOLEAN :
          kRuns' = [kRuns EXCEPT ![r].todo = @ \ {k},
                                 ![r].data.posts[k].thumbnail =
                                     IF found THEN Some(ImgGood) ELSE @]
    /\ kSeen' = Nothing
    /\ UNCHANGED <<kPhase, kCache, kLoaded, kTimestamp, kFile, kNow, kPublished, notCache>>

\* the backfill has returned: initialize_cache or periodic_crawl replaces
\* the cache
RunReplaces(r) ==
    /\ kRuns[r].pc = "filling"
    /\ FillAwaited(kRuns[r])
    /\ kRuns' = [kRuns EXCEPT ![r].pc = "done"]
    /\ Replace(r, kRuns[r].data)
    /\ kSeen' = Nothing
    /\ UNCHANGED <<kLoaded, kFile, kNow, notCache>>

\* what an exception in crawl_all (the file is left alone) or in
\* save_to_json (the file is opened for writing, then left unfinished) does
\* to the file
FileAfterFailure(in_save) == IF in_save THEN Corrupt ELSE kFile

\* initialize_cache: the run raises; the file, if it is there and loads,
\* becomes the cache
InitializeFails ==
    /\ kRuns[1].pc = "crawling"
    /\ \E in_save \in BOOLEAN :
          LET file == FileAfterFailure(in_save)
          IN  /\ kFile' = file
              /\ IF file \notin {Nothing, Corrupt}
                 THEN /\ kCache' = LoadedDict
                      /\ kLoaded' = file
                      /\ kTimestamp' = file.metadata.collected_at
                 ELSE UNCHANGED <<kCache, kLoaded, kTimestamp>>
    /\ kRuns' = [kRuns EXCEPT ![1].pc = "failed"]
    /\ kPhase' = "serving"
    /\ kSeen' = Nothing
    /\ UNCHANGED <<kNow, kPublished, notCache>>

\* a handler that empties the cache when its run raises
RunFailsEmptiesCache(r) ==
    /\ r > 1
    /\ kRuns[r].pc = "crawling"
    /\ \E in_save \in BOOLEAN : kFile' = FileAfterFailure(in_save)
    /\ kRuns' = [kRuns EXCEPT ![r].pc = "failed"]
    /\ kCache' = EmptyDict
    /\ kTimestamp' = <<>>
    /\ kSeen' = Nothing
    /\ UNCHANGED <<kPhase, kLoaded, kNow, kPublished, notCache>>

\* periodic_crawl or crawl_posts: the run raises before the cache is
\* replaced
RunFails(r) ==
    /\ r > 1
    /\ kRuns[r].pc = "crawling"
    /\ \E in_save \in BOOLEAN : kFile' = FileAfterFailure(in_save)
    /\ kRuns' = [kRuns EXCEPT ![r].pc = "failed"]
    /\ kSeen' = Nothing
    /\ UNCHANGED <<kPhase, kCache, kLoaded, kTimestamp, kNow, kPublished, notCache>>

\* a run is started: periodic_crawl wakes from its sleep, or POST /api/crawl
StartRun(kind) ==
    /\ kPhase = "serving"
    /\ Len(kRuns) < MaxRuns
    /\ kRuns' = Append(kRuns, [kind |-> kind, pc |-> "crawling", data |-> Nothing, todo |-> {}])
    /\ kPublished' = Append(kPublished, Nothing)
    /\ kSeen' = Nothing
    /\ UNCHANGED <<kPhase, kCache, kLoaded, kTimestamp, kFile, kNow, notCache>>

\* the loop of periodic_crawl: one run at a time
PeriodicWakes ==
    /\ \A r \in 1..Len(kRuns) :
          kRuns[r].kind = "periodic" => kRuns[r].pc \in {"done", "failed"}
    /\ StartRun("periodic")

ManualRequested == StartRun("manual")

\* crawl_posts after crawl_all has returned: the file is written and the
\* cache replaced by a dict built in place
ManualCrawled(r) ==
    /\ kRuns[r].kind = "manual"
    /\ kRuns[r].pc = "crawling"
    /\ \E results \in CrawlResults(kNow) :
          LET data == Snapshot(results, kNow + 2)
          IN  /\ kFile' = Snapshot(results, kNow + 1)
              /\ kRuns' = [kRuns EXCEPT ![r] = [@ EXCEPT !.data = data, !.pc = "done"]]
              /\ Replace(r, data)
    /\ kNow' = kNow + 3
    /\ kSeen' = Nothing
    /\ UNCHANGED <<kLoaded, notCache>>

\* p.get("views") or 0
ViewsOf(post) == IF post.views = Nothing THEN 0 ELSE post.views.v

\* the key get_posts sorts by; collected_at strings compare as their times
SortKey(post, sort) ==
    IF sort = "views" THEN ViewsOf(post)
    ELSE IF post.collected_at = Nothing THEN 0
    ELSE post.collected_at.v[2]

\* list.sort(key=..., reverse=True): descending, equal keys in their order
RECURSIVE InsertDesc(_, _, _)
InsertDesc(sorted, post, sort) ==
    IF sorted = <<>> THEN <<post>>
    ELSE IF SortKey(Head(sorted), sort) >= SortKey(post, sort)
         THEN <<Head(sorted)>> \o InsertDesc(Tail(sorted), post, sort)
    ELSE <<post>> \o sorted

RECURSIVE SortDesc(_, _)
SortDesc(posts, sort) ==
    IF posts = <<>> THEN <<>>
    ELSE InsertDesc(SortDesc(SubSeq(posts, 1, Len(posts) - 1), sort), posts[Len(posts)], sort)

OfSite(posts, site) ==
    LET Is(p) == p.site = site
    IN  SelectSeq(posts, Is)

\* GET /api/posts
get_posts(sort, site, limit) ==
    IF Cached = Nothing
    THEN [reader |-> "get_posts", posts |-> <<>>,
          metadata |-> [total_posts |-> 0, collected_at |-> kTimestamp]]
    ELSE LET filtered == IF site # None THEN OfSite(CachedPosts, site) ELSE CachedPosts
             sorted == SortDesc(filtered, sort)
             posts == IF limit # 0 THEN Limit(sorted, limit) ELSE sorted
         IN  [reader |-> "get_posts", posts |-> posts,
              metadata |-> [total_posts |-> Len(posts), collected_at |-> kTimestamp,
                            sites |-> SitesOf(CachedPosts)]]

\* GET /api/post/detail: the first cached post of that url, 404 if none
get_post_detail(url) ==
    LET hits == {k \in 1..Len(CachedPosts) : CachedPosts[k].url = url}
    IN  IF hits = {} THEN [reader |-> "get_post_detail", status |-> 404, post |-> Nothing]
        ELSE [reader |-> "get_post_detail", status |-> 200,
              post |-> Some(CachedPosts[CHOOSE k \in hits : \A j \in hits : k <= j])]

\* GET /api/health
health_check ==
    [reader |-> "health_check", cached_posts |-> Len(CachedPosts),
     cache_timestamp |-> kTimestamp]

Responds(response) ==
    /\ kPhase = "serving"
    /\ kSeen' = response
    /\ UNCHANGED <<kPhase, kRuns, kCache, kLoaded, kTimestamp, kFile, kNow, kPublished,
                   notCache>>

\* the requests: [sort, site, limit], limit 0 when none is given
PostsRequests ==
    {[sort |-> "latest", site |-> None, limit |-> 0],
     [sort |-> "views", site |-> None, limit |-> 1],
     [sort |-> "latest", site |-> "humoruniv", limit |-> 0]}

GetPosts == \E q \in PostsRequests : Responds(get_posts(q.sort, q.site, q.limit))

GetPostDetail ==
    \E url \in {CrawledPost("fmkorea", 2).url} : Responds(get_post_detail(url))

HealthCheck == Responds(health_check)

CacheNext ==
    \/ \E r \in 1..Len(kRuns) :
          RunCrawled(r) \/ FillThumbnail(r) \/ RunReplaces(r) \/ RunFails(r) \/ ManualCrawled(r)
    \/ InitializeFails
    \/ PeriodicWakes
    \/ ManualRequested
    \/ GetPosts
    \/ GetPostDetail
    \/ HealthCheck

\* a snapshot is the whole output of one run: the dict a run that is done
\* built, with the posts the run had when it replaced the cache, or the
\* dict one save_to_json call wrote that was loaded at startup
IsSnapshotOfOneRun ==
    CASE kCache.obj = "run" ->
            /\ kRuns[kCache.r].pc = "done"
            /\ kRuns[kCache.r].todo = {}
            /\ kPublished[kCache.r] # Nothing
      [] kCache.obj = "file" ->
            /\ kLoaded # Nothing
            /\ kLoaded.metadata.total_posts = Len(kLoaded.posts)
      [] OTHER -> kTimestamp = <<>>

\* the response is what the reader computes from the snapshot
FromSnapshot(response) ==
    CASE response.reader = "get_posts" ->
            /\ response.metadata.collected_at = kTimestamp
            /\ \A k \in 1..Len(response.posts) :
                  \E j \in 1..Len(CachedPosts) : response.posts[k] = CachedPosts[j]
      [] response.reader = "get_post_detail" ->
            response.status = 200 =>
                \E j \in 1..Len(CachedPosts) : response.post.v = CachedPosts[j]
      [] response.reader = "health_check" ->
            /\ response.cached_posts = Len(CachedPosts)
            /\ response.cache_timestamp = kTimestamp

\* C2: whatever the interleaving of readers and refresh runs, the cache is
\* the whole output of one run, CACHE_TIMESTAMP is that snapshot's
\* metadata.collected_at, a reader's response is computed from it, and the
\* posts of a run are, ever after it replaced the cache, those it had then
C2_SnapshotAtomic ==
    /\ IsSnapshotOfOneRun
    /\ Cached # Nothing => kTimestamp = Cached.metadata.collected_at
    /\ kSeen # Nothing => FromSnapshot(kSeen)
    /\ \A r \in 1..Len(kRuns) :
          kPublished[r] # Nothing => kRuns[r].data.posts = kPublished[r].v

\* a reader answers from the snapshot of a periodic run whose backfill
\* filled a thumbnail, while a manual run is still crawling
C2_Witness ==
    /\ kSeen # Nothing
    /\ kSeen.reader = "get_posts"
    /\ kSeen.posts # <<>>
    /\ kCache.obj = "run"
    /\ kRuns[kCache.r].kind = "periodic"
    /\ \E k \in 1..Len(CachedPosts) :
          /\ CachedPosts[k].thumbnail # Nothing
          /\ CachedPosts[k] # to_dict(CrawledPost(CachedPosts[k].site, 1), 0)
          /\ CachedPosts[k].url # CrawledPost(CachedPosts[k].site, 1).url
    /\ \E r \in 1..Len(kRuns) : kRuns[r].kind = "manual" /\ kRuns[r].pc = "crawling"

\* the time a collected_at string tells
TimeOf(stamp) == stamp[2]

\* C28: the collected_at of the published snapshot never decreases, in any
\* interleaving of the periodic refresh and the manual crawls.
C28_CollectedAtMonotone ==
    [][(kTimestamp # <<>> /\ kTimestamp' # <<>>) => TimeOf(kTimestamp') >= TimeOf(kTimestamp)]_vars

\* C29: a periodic or manual run that raises before it completes leaves
\* CACHED_DATA and CACHE_TIMESTAMP as they were, and the loop of
\* periodic_crawl can start its next run.
C29_FailedRunLeavesCache ==
    /\ [][\A r \in 2..Len(kRuns) :
             (kRuns[r].pc # "failed" /\ kRuns'[r].pc = "failed") =>
                 /\ kCache' = kCache
                 /\ Cached' = Cached
                 /\ kTimestamp' = kTimestamp]_vars
    /\ []((/\ kPhase = "serving"
           /\ Len(kRuns) < MaxRuns
           /\ kRuns[Len(kRuns)].kind = "periodic"
           /\ kRuns[Len(kRuns)].pc = "failed") => ENABLED PeriodicWakes)

\* a periodic run has failed while the cache held the posts of an earlier
\* run, and the next periodic run has started
C29_Witness ==
    /\ CachedPosts # <<>>
    /\ \E r \in 2..Len(kRuns) :
          /\ kRuns[r].kind = "periodic"
          /\ kRuns[r].pc = "failed"
          /\ \E q \in (r + 1)..Len(kRuns) : kRuns[q].kind = "periodic"

\* C30: a run whose crawl_all returns the empty list does not replace a
\* published snapshot that has posts by one that has none.
C30_LastGoodSnapshotKept ==
    [][CachedPosts # <<>> => CachedPosts' # <<>>]_vars

(***************************************************************************)
(* The fmkorea session (crawler/main.py 221-242) and the runs that use it  *)
(* (backend/main.py).                                                      *)
(*                                                                         *)
(* The coroutines of the runs share one event loop; each request of        *)
(* fmkorea is a call of _fmkorea_fetch_sync handed to a thread of the      *)
(* default executor, and the coroutine waits for it.  Threads of different *)
(* runs run side by side, and a thread can be suspended between any two    *)
(* statements of _get_fmkorea_session.  A run is                           *)
(*   [kind, left, pc, obj]                                                 *)
(* left the requests of fmkorea the run has yet to make (the listing pages *)
(* of crawl_fmkorea, then the detail pages of its thumbnail backfill), pc  *)
(* where its thread is ("idle" without one), obj the session object the    *)
(* thread holds.                                                           *)
(***************************************************************************)
\* the fmkorea posts without a thumbnail a backfill may visit
MaxDetailFetches == 1

\* crawl_fmkorea: for page in range(1, 3)
FmkoreaPages == DriverPageCount.fmkorea

\* the requests of fmkorea a run makes: manual crawls have no backfill
RunRequests(kind) ==
    IF kind = "manual" THEN {FmkoreaPages}
    ELSE {FmkoreaPages + d : d \in 0..MaxDetailFetches}

SessionInit ==
    /\ sPhase = "startup"
    /\ sSession = 0
    /\ sCreated = 0
    /\ sRuns \in {<<[kind |-> "initialize", left |-> n, pc |-> "idle", obj |-> 0]>> :
                     n \in RunRequests("initialize")}
    /\ sUsed = {}

SessionIdle ==
    /\ sPhase = "off"
    /\ sSession = 0
    /\ sCreated = 0
    /\ sRuns = <<>>
    /\ sUsed = {}

\* requests are accepted while the startup run is still going
AcceptsDuringStartup(phase) == phase \in {"startup", "serving"}

\* startup_event: await initialize_cache() comes before the periodic task is
\* created and before the server takes requests
Accepts(phase) == phase = "serving"

\* a run starts: periodic_crawl wakes from its sleep, or POST /api/crawl
SessionStartRun(kind) ==
    /\ Accepts(sPhase)
    /\ Len(sRuns) < MaxRuns
    /\ \E n \in RunRequests(kind) :
          sRuns' = Append(sRuns, [kind |-> kind, left |-> n, pc |-> "idle", obj |-> 0])
    /\ UNCHANGED <<sPhase, sSession, sCreated, sUsed, notSession>>

\* the loop of periodic_crawl: one run at a time
SessionPeriodicWakes ==
    /\ \A r \in 1..Len(sRuns) : sRuns[r].kind = "periodic" => sRuns[r].pc = "done"
    /\ SessionStartRun("periodic")

SessionManualRequested == SessionStartRun("manual")

\* await loop.run_in_executor(None, _fmkorea_fetch_sync, url)
Submit(r) ==
    /\ sRuns[r].pc = "idle"
    /\ sRuns[r].left > 0
    /\ sRuns' = [sRuns EXCEPT ![r].pc = "check"]
    /\ UNCHANGED <<sPhase, sSession, sCreated, sUsed, notSession>>

\* if _fmkorea_session is None:
CheckSession(r) ==
    /\ sRuns[r].pc = "check"
    /\ sRuns' = [sRuns EXCEPT ![r].pc = IF sSession = 0 THEN "make" ELSE "return"]
    /\ UNCHANGED <<sPhase, sSession, sCreated, sUsed, notSession>>

\* cffi_requests.Session(impersonate="chrome"): a new object
Construct(r) ==
    /\ sRuns[r].pc = "make"
    /\ sCreated' = sCreated + 1
    /\ sRuns' = [sRuns EXCEPT ![r].pc = "store", ![r].obj = sCreated + 1]
    /\ UNCHANGED <<sPhase, sSession, sUsed, notSession>>

\* _fmkorea_session = <the new object>
StoreSession(r) ==
    /\ sRuns[r].pc = "store"
    /\ sSession' = sRuns[r].obj
    /\ sRuns' = [sRuns EXCEPT ![r].pc = "return"]
    /\ UNCHANGED <<sPhase, sCreated, sUsed, notSession>>

\* return _fmkorea_session; r = session.get(url, ...) is entered
EnterGet(r) ==
    /\ sRuns[r].pc = "return"
    /\ sRuns' = [sRuns EXCEPT ![r].pc = "get", ![r].obj = sSession]
    /\ sUsed' = sUsed \cup {sSession}
    /\ UNCHANGED <<sPhase, sSession, sCreated, notSession>>

\* session.get returns or raises; the thread ends and the coroutine goes on
LeaveGet(r) ==
    /\ sRuns[r].pc = "get"
    /\ sRuns' = [sRuns EXCEPT ![r].pc = "idle", ![r].left = @ - 1]
    /\ UNCHANGED <<sPhase, sSession, sCreated, sUsed, notSession>>

\* the run has made its requests; when it is the startup run,
\* initialize_cache returns
SessionRunEnds(r) ==
    /\ sRuns[r].pc = "idle"
    /\ sRuns[r].left = 0
    /\ sRuns' = [sRuns EXCEPT ![r].pc = "done"]
    /\ sPhase' = IF r = 1 THEN "serving" ELSE sPhase
    /\ UNCHANGED <<sSession, sCreated, sUsed, notSession>>

SessionNext ==
    \/ \E r \in 1..Len(sRuns) :
          \/ Submit(r)
          \/ CheckSession(r)
          \/ Construct(r)
          \/ StoreSession(r)
          \/ EnterGet(r)
          \/ LeaveGet(r)
          \/ SessionRunEnds(r)
    \/ SessionPeriodicWakes
    \/ SessionManualRequested

\* the runs whose thread is inside session.get
InGet == {r \in 1..Len(sRuns) : sRuns[r].pc = "get"}

\* C22: at most one session object is ever constructed, and every request
\* of fmkorea, of whichever run, is sent through that object.
C22_SessionSingleton ==
    /\ sCreated <= 1
    /\ Cardinality(sUsed) <= 1
    /\ \A r \in InGet : sRuns[r].obj = sSession

\* the startup run has ended, and the detail request of a periodic run's
\* backfill and the listing request of a manual crawl are both being sent
\* through the object the startup run constructed
C22_Witness ==
    /\ sCreated = 1
    /\ sRuns[1].pc = "done"
    /\ \E p, m \in InGet :
          /\ sRuns[p].kind = "periodic"
          /\ sRuns[p].left = 1
          /\ sRuns[m].kind = "manual"
          /\ sRuns[m].left = FmkoreaPages

\* C26: at most one thread is inside session.get on the shared session,
\* in any interleaving of the runs and their backfills.
C26_SessionNeverShared ==
    Cardinality(InGet) <= 1

(***************************************************************************)
(* Specifications.                                                         *)
(***************************************************************************)
(* The thumbnail backfill: _fill_thumbnails_for (src/backend/main.py       *)
(* 201-241) and its copy _fill_thumbnails (src/crawler_cli.py 23-62).      *)
(* The posts without a thumbnail are grouped by site; one _process_site    *)
(* task per site visits its posts in order, and the tasks take turns at    *)
(* their awaits.  A post is a dict; a missing thumbnail is None or "".     *)
(***************************************************************************)
MaxFillPosts == 3

FillPost(site, url, thumbnail) ==
    [site |-> site, url |-> url, title |-> <<"t">>, thumbnail |-> thumbnail]

FillPosts ==
    {FillPost("fmkorea", <<"https://", "fmkorea", "/", "1">>, Nothing),
     FillPost("fmkorea", <<"https://", "fmkorea", "/", "2">>, Some(<<>>)),
     FillPost("fmkorea", <<"https://", "fmkorea", "/", "3">>, Some(ImgIcon)),
     FillPost("humoruniv", <<"https://", "humoruniv", "/", "1">>, Nothing),
     FillPost("", <<"https://", "unknown", "/", "1">>, Nothing),
     FillPost("ruliweb", <<>>, Nothing)}

\* not p.get("thumbnail")
LacksThumbnail(post) == post.thumbnail = Nothing \/ post.thumbnail.v = <<>>

\* the posts a _process_site task requests the detail page of: those of
\* no_thumb that have a site (by_site) and a url (the loop's `continue`)
ToVisit(posts) ==
    {k \in 1..Len(posts) :
        LacksThumbnail(posts[k]) /\ posts[k].site # "" /\ posts[k].url # <<>>}

\* what extract_thumbnail_from_page does for a post: it returns a URL, it
\* returns None (the fetch failed, no image was found), or it raises
VisitOutcomes == {"thumb", "none", "raise"}

VisitEvent(k, outcome) == [k |-> k, outcome |-> outcome]

FillInit ==
    /\ bPc = "fill"
    /\ bIn \in SeqsUpTo(FillPosts, MaxFillPosts)
    /\ bPosts = bIn
    /\ bTodo = ToVisit(bIn)
    /\ bLog = <<>>

FillIdle ==
    /\ bPc = "off"
    /\ bIn = <<>>
    /\ bPosts = <<>>
    /\ bTodo = {}
    /\ bLog = <<>>

\* a task that ends at the first post whose detail page gives no thumbnail
AfterVisitStop(todo, posts, k, outcome) ==
    IF outcome = "thumb" THEN todo \ {k}
    ELSE {j \in todo : posts[j].site # posts[k].site}

\* the loop of _process_site goes on to the next post whatever the outcome
AfterVisit(todo, posts, k, outcome) == todo \ {k}

\* one iteration of a _process_site loop: the next post of the task's site,
\* thumb = await extract_thumbnail_from_page(client, url, site)
VisitPost ==
    /\ bPc = "fill"
    /\ \E k \in NextOfSite(bPosts, bTodo), outcome \in VisitOutcomes :
          /\ bPosts' = IF outcome = "thumb"
                       THEN [bPosts EXCEPT ![k].thumbnail = Some(ImgGood)]
                       ELSE bPosts
          /\ bTodo' = AfterVisit(bTodo, bPosts, k, outcome)
          /\ bLog' = Append(bLog, VisitEvent(k, outcome))
    /\ UNCHANGED <<bPc, bIn>>
    /\ UNCHANGED notFill

\* no post lacks a thumbnail, or every task has returned and gather with it
FillReturn ==
    /\ bPc = "fill"
    /\ bTodo = {}
    /\ bPc' = "ret"
    /\ UNCHANGED <<bIn, bPosts, bTodo, bLog>>
    /\ UNCHANGED notFill

FillNext == VisitPost \/ FillReturn

\* the outcome of the visit of post k, "" before it
OutcomeOf(k) ==
    IF \E i \in 1..Len(bLog) : bLog[i].k = k
    THEN bLog[CHOOSE i \in 1..Len(bLog) : bLog[i].k = k].outcome
    ELSE ""

\* C17: the backfill changes only the thumbnail of posts that had none: the
\* posts and their order stay, a post that had a thumbnail stays as it was,
\* a post whose detail page fails or shows no image stays without one, and
\* such a post stops neither the later posts of its site nor those of the
\* other sites: when the backfill returns every post to visit was visited.
C17_BackfillFrame ==
    /\ Len(bPosts) = Len(bIn)
    /\ \A k \in 1..Len(bIn) :
          /\ [bPosts[k] EXCEPT !.thumbnail = bIn[k].thumbnail] = bIn[k]
          /\ ~LacksThumbnail(bIn[k]) => bPosts[k] = bIn[k]
          /\ OutcomeOf(k) \in {"none", "raise"} => bPosts[k] = bIn[k]
          /\ bPosts[k] # bIn[k] => OutcomeOf(k) = "thumb"
    /\ bPc = "ret" =>
          \A k \in 1..Len(bIn) :
              (LacksThumbnail(bIn[k]) /\ bIn[k].site # "" /\ bIn[k].url # <<>>) =>
                  OutcomeOf(k) # ""

\* the detail page of the first fmkorea post fails; the second fmkorea post
\* and the humoruniv post are visited all the same and get their thumbnail
C17_Witness ==
    /\ bPc = "ret"
    /\ Len(bIn) = 3
    /\ bIn[1].site = "fmkorea"
    /\ bIn[2].site = "fmkorea"
    /\ bIn[3].site = "humoruniv"
    /\ OutcomeOf(1) = "raise"
    /\ bPosts[1] = bIn[1]
    /\ OutcomeOf(2) = "thumb"
    /\ OutcomeOf(3) = "thumb"
    /\ bPosts[2].thumbnail = Some(ImgGood)
    /\ bPosts[3].thumbnail = Some(ImgGood)

(***************************************************************************)
InitDedupe ==
    /\ DedupeInit
    /\ FetchIdle
    /\ ThumbIdle
    /\ ParseIdle
    /\ ExtractIdle
    /\ CrawlIdle
    /\ CacheIdle
    /\ ToIntIdle
    /\ DriverIdle
    /\ FillIdle
    /\ SessionIdle

SpecDedupe == InitDedupe /\ [][DedupeNext]_vars

InitFetch ==
    /\ FetchInit
    /\ DedupeIdle
    /\ ThumbIdle
    /\ ParseIdle
    /\ ExtractIdle
    /\ CrawlIdle
    /\ CacheIdle
    /\ ToIntIdle
    /\ DriverIdle
    /\ FillIdle
    /\ SessionIdle

SpecFetch == InitFetch /\ [][FetchNext]_vars

InitThumb ==
    /\ ThumbInit
    /\ DedupeIdle
    /\ FetchIdle
    /\ ParseIdle
    /\ ExtractIdle
    /\ CrawlIdle
    /\ CacheIdle
    /\ ToIntIdle
    /\ DriverIdle
    /\ FillIdle
    /\ SessionIdle

SpecThumb == InitThumb /\ [][ThumbNext]_vars

InitParse ==
    /\ ParseInit
    /\ DedupeIdle
    /\ FetchIdle
    /\ ThumbIdle
    /\ ExtractIdle
    /\ CrawlIdle
    /\ CacheIdle
    /\ ToIntIdle
    /\ DriverIdle
    /\ FillIdle
    /\ SessionIdle

SpecParse == InitParse /\ [][ParseNext]_vars

InitExtract ==
    /\ ExtractInit
    /\ DedupeIdle
    /\ FetchIdle
    /\ ThumbIdle
    /\ ParseIdle
    /\ CrawlIdle
    /\ CacheIdle
    /\ ToIntIdle
    /\ DriverIdle
    /\ FillIdle
    /\ SessionIdle

SpecExtract == InitExtract /\ [][ExtractNext]_vars

InitCrawl ==
    /\ CrawlInit
    /\ DedupeIdle
    /\ FetchIdle
    /\ ThumbIdle
    /\ ParseIdle
    /\ ExtractIdle
    /\ CacheIdle
    /\ ToIntIdle
    /\ DriverIdle
    /\ FillIdle
    /\ SessionIdle

SpecCrawl == InitCrawl /\ [][CrawlNext]_vars

InitCache ==
    /\ CacheInit
    /\ DedupeIdle
    /\ FetchIdle
    /\ ThumbIdle
    /\ ParseIdle
    /\ ExtractIdle
    /\ CrawlIdle
    /\ ToIntIdle
    /\ DriverIdle
    /\ FillIdle
    /\ SessionIdle

SpecCache == InitCache /\ [][CacheNext]_vars

InitToInt ==
    /\ ToIntInit
    /\ DedupeIdle
    /\ FetchIdle
    /\ ThumbIdle
    /\ ParseIdle
    /\ ExtractIdle
    /\ CrawlIdle
    /\ CacheIdle
    /\ DriverIdle
    /\ FillIdle
    /\ SessionIdle

SpecToInt == InitToInt /\ [][ToIntNext]_vars

InitDriver ==
    /\ DriverInit
    /\ DedupeIdle
    /\ FetchIdle
    /\ ThumbIdle
    /\ ParseIdle
    /\ ExtractIdle
    /\ CrawlIdle
    /\ CacheIdle
    /\ ToIntIdle
    /\ FillIdle
    /\ SessionIdle

SpecDriver == InitDriver /\ [][DriverNext]_vars

InitFill ==
    /\ FillInit
    /\ DedupeIdle
    /\ FetchIdle
    /\ ThumbIdle
    /\ ParseIdle
    /\ ExtractIdle
    /\ CrawlIdle
    /\ CacheIdle
    /\ ToIntIdle
    /\ DriverIdle
    /\ SessionIdle

SpecFill == InitFill /\ [][FillNext]_vars

InitSession ==
    /\ SessionInit
    /\ DedupeIdle
    /\ FetchIdle
    /\ ThumbIdle
    /\ ParseIdle
    /\ ExtractIdle
    /\ CrawlIdle
    /\ CacheIdle
    /\ ToIntIdle
    /\ DriverIdle
    /\ FillIdle

SpecSession == InitSession /\ [][SessionNext]_vars

====
